---- MODULE Spec2Model ----
(***************************************************************************)
(* A model of the no-migration integrators of moments                      *)
(* (src/moments/Integration_nomig.py): the time loop of integrate_nomig    *)
(* and integrate_neutral with its step-size controller, the normalisation  *)
(* of the parameters, the handling of frozen populations, and the          *)
(* dimensional-splitting drivers.                                          *)
(*                                                                         *)
(* Time.  The code keeps t, dt and Tmax in binary floating point.  The     *)
(* model keeps them in binary fixed point: every time is an integer number *)
(* of quanta, a tick is QPT quanta, and a base time unit is TicksPerUnit   *)
(* ticks.  The loop clock t lives on the tick grid (a sum t + dt is        *)
(* rounded to the nearest tick, ties to even, as a floating-point sum is   *)
(* rounded to the nearest representable number); dt is halved exactly (a   *)
(* floating-point division by two is exact).                               *)
(*                                                                         *)
(* Sizes, selection coefficients and rates are small integers; h is kept   *)
(* in tenths (5 stands for 0.5) and theta in units of which a quarter is   *)
(* still an integer.                                                       *)
(***************************************************************************)
EXTENDS Integers, Sequences, FiniteSets, TLC

VARIABLES
  pc,        \* position of the call
  integ,     \* "nomig" or "neutral": which integrator was called
  arg,       \* the arguments of the call, as values
  Npop_obj,  \* the caller's Npop object (the list is written in place)
  raised,    \* the exception that ended the call, or NA
  s, h,      \* normalised selection and dominance
  u, v,      \* mutation rates per population
  Npop,      \* the local Npop (the caller's list, or the (wrapped) function)
  N, Nold, Neff,
  t, dt, dt_old,
  s_new, s_old, h_new, h_old,
  n_iter,
  printed,   \* the large-change diagnostic was printed in this step
  halved,    \* the halving loop ran in this step (callable Npop)
  crossing,  \* the step that first proposed to pass the jump of Npop
  built,     \* the values Q and slv (A, Di, C) were last built from
  rebuilt,   \* the operators were rebuilt in this step
  applied,   \* the last update applied to the tensor
  returned,  \* a spectrum was returned to the caller
  \* a direct call of a splitting driver
  tpc,       \* position of the driver call
  tsfs,      \* the caller's array (step 2 writes it in place)
  tops,      \* the per-axis operators handed to the driver
  tret,      \* what the driver call produced: an error or the returned array
  \* two calls on the same arguments, followed through the tensor
  sfs0,        \* the initial tensor handed to both calls
  run_nomig,   \* the locals of the call of integrate_nomig
  run_neutral, \* the locals of the call of integrate_neutral
  \* a call of Spectrum.integrate
  ipc,         \* position of the call
  iarg,        \* its arguments
  idata,       \* self.data
  imask,       \* self.mask
  iout         \* the exception it raised, the integrator it called and with what

ctl == <<pc, integ, arg, Npop_obj, raised, s, h, u, v, Npop, N, Nold, Neff,
         t, dt, dt_old, s_new, s_old, h_new, h_old, n_iter, printed, halved,
         crossing, built, rebuilt, applied, returned>>

drv == <<tpc, tsfs, tops, tret>>

runs == <<sfs0, run_nomig, run_neutral>>

intg == <<ipc, iarg, idata, imask, iout>>

vars == <<ctl, drv, runs, intg>>

NA == "NA"                \* no exception
Unset == <<>>             \* a vector not assigned yet
NoFn == [kind |-> "none", ret |-> "vector", pre |-> <<>>, post |-> <<>>, at |-> 0,
         until |-> 0, last |-> <<>>, rate |-> <<>>]
NoParam == [callable |-> FALSE, val |-> <<>>, fn |-> NoFn, bcast |-> FALSE,
            masked |-> FALSE]
NoOps == [set |-> FALSE, Neff |-> <<>>, s |-> <<>>, h |-> <<>>, dt |-> 0]
NoUpdate == [set |-> FALSE, from |-> 0, dt |-> 0, ops |-> NoOps, u |-> <<>>, v |-> <<>>]
NoCrossing == [proposed |-> FALSE, in_step |-> FALSE, halved |-> FALSE]
NoOut == [err |-> NA, fn |-> "none", gamma |-> <<>>, h |-> <<>>, theta |-> 0,
          theta_fd |-> 0, theta_bd |-> 0]
NoMatrix == [shape |-> <<>>, at |-> <<>>]
NoOperators == [Q |-> <<>>, slv |-> <<>>, A |-> <<>>, Di |-> <<>>, C |-> <<>>]
NoResult == [drv |-> "none", err |-> NA, given |-> NoMatrix, sfs |-> NoMatrix]
NoRun ==
  [pc |-> "call", N |-> <<>>, u |-> <<>>, v |-> <<>>, t |-> 0, dt |-> 0,
   sfs |-> NoMatrix, B |-> NoMatrix, steps |-> 0, rebuilt |-> <<>>,
   ops |-> NoOperators, shapes |-> <<>>]

-----------------------------------------------------------------------------
(* Bounds of the model *)

MaxTf == 2        \* tf ranges over 1..MaxTf base time units
FracBits == 10    \* fractional bits of the loop clock: ticks per time unit

(* Program constants *)

n_iter_max == 10
acceptable_change_num == 1     \* acceptable_change = 0.5 = 1/2
acceptable_change_den == 2
N_frozen == 1000000            \* stands for 1e40: above every supplied size
h_default == 5                 \* 0.5, in tenths

TicksPerUnit == 2 ^ FracBits
QPT == 2 ^ (n_iter_max + 1)    \* quanta per tick: 10 halvings and dt / 2 stay exact
UnitQ == TicksPerUnit * QPT

-----------------------------------------------------------------------------
(* Small helpers *)

Abs(x) == IF x < 0 THEN -x ELSE x
MinOf(S) == CHOOSE x \in S : \A y \in S : x <= y
Vec(P, x) == [i \in 1..P |-> x]
IsVec(x) == DOMAIN x = 1..Len(x)

(* Mutant: a size of zero passes the test *)
AnyNegative(Nv) == \E i \in DOMAIN Nv : Nv[i] < 0

(* np.any(N <= 0) *)
AnyNonPositive(Nv) == \E i \in DOMAIN Nv : Nv[i] <= 0

(* fl(x): a floating-point sum, rounded to the nearest tick, ties to even *)
fl(x) ==
  LET q == x \div QPT
      r == x % QPT
  IN  IF 2 * r < QPT THEN q * QPT
      ELSE IF 2 * r > QPT THEN (q + 1) * QPT
      ELSE IF q % 2 = 0 THEN q * QPT ELSE (q + 1) * QPT

-----------------------------------------------------------------------------
(* The caller's functions of time.  A function is a record: a step function *)
(* (pre before the jump at, post from it on until the jump until, last from *)
(* then on) or a linear function (pre at time 0, growing by rate per time   *)
(* unit); ret tells whether it returns a scalar or a vector (the record     *)
(* keeps a scalar as a 1-vector).  The argument x2 is twice the time, in    *)
(* quanta: the code calls Npop((t + dt) / 2.0).                             *)

CallUser(f, x2) ==
  LET val == IF f.kind = "step"
               THEN (IF x2 < f.at THEN f.pre
                     ELSE IF x2 < f.until THEN f.post ELSE f.last)
               ELSE [i \in DOMAIN f.pre |->
                       f.pre[i] + (f.rate[i] * (x2 \div QPT)) \div (2 * TicksPerUnit)]
  IN  IF f.ret = "scalar" THEN val[1] ELSE val

(* hasattr(x, "__len__") of the value a function returns *)
ReturnsVector(f) == f.ret = "vector"

(* 1 - frozen and frozen, as numbers *)
Thawed(i) == IF arg.frozen[i] THEN 0 ELSE 1
Frozen(i) == IF arg.frozen[i] THEN 1 ELSE 0
AnyFrozen == \E i \in DOMAIN arg.frozen : arg.frozen[i]

(* Mutant: the supplied size of a frozen population is kept in the sum *)
FrozenSizesAdded(Nv) == [i \in DOMAIN Nv |-> Nv[i] + N_frozen * Frozen(i)]

(* lambda t: list(np.array(nu_func(t)) * (1 - frozen) + 1e40 * frozen) *)
FrozenSizes(Nv) == [i \in DOMAIN Nv |-> Nv[i] * Thawed(i) + N_frozen * Frozen(i)]

(* Mutant: the rates of a frozen population are kept *)
FrozenKept(x) == x

(* s_func(t) * (1 - frozen), u *= 1 - frozen *)
FrozenZero(x) == [i \in DOMAIN x |-> x[i] * Thawed(i)]

(* The local Npop called at time x2 / 2 *)
CallNpop(Np, x2) ==
  IF Np.wrapped THEN FrozenSizes(CallUser(Np.fn, x2)) ELSE CallUser(Np.fn, x2)

(* The normalised s or h called at time x2 / 2 *)
CallParam(p, x2) ==
  LET raw  == CallUser(p.fn, x2)
      base == IF p.bcast THEN Vec(arg.P, raw) ELSE raw
  IN  IF p.masked THEN FrozenZero(base) ELSE base

(* Mutant: a scalar is kept as it is, not repeated for every population *)
NormaliseParamNoBroadcast(a, dflt) ==
  IF a.form = "none" THEN [NoParam EXCEPT !.val = Vec(arg.P, dflt)]
  ELSE IF a.form = "fun"
    THEN [NoParam EXCEPT !.callable = TRUE, !.fn = a.fn,
                         !.bcast = ~ReturnsVector(a.fn)]
  ELSE [NoParam EXCEPT !.val = a.val]

(* Lines 437-463: gamma and h as arrays or as functions returning arrays.   *)
(* An argument is a record: form "none", "scalar" (val a 1-vector),        *)
(* "vector" or "fun".                                                      *)
NormaliseParam(a, dflt) ==
  IF a.form = "none" THEN [NoParam EXCEPT !.val = Vec(arg.P, dflt)]
  ELSE IF a.form = "fun"
    THEN [NoParam EXCEPT !.callable = TRUE, !.fn = a.fn,
                         !.bcast = ~ReturnsVector(a.fn)]
  ELSE IF a.form = "vector" THEN [NoParam EXCEPT !.val = a.val]
  ELSE [NoParam EXCEPT !.val = Vec(arg.P, a.val[1])]

(* Lines 472-486: theta (theta_fd, theta_bd) / 4.0, per population *)
RateVector(th) ==
  IF th.form = "vector" THEN [i \in DOMAIN th.val |-> th.val[i] \div 4]
  ELSE Vec(arg.P, th.val[1] \div 4)

(* Lines 494-499: selection of the frozen populations set to zero *)
FreezeParam(p) ==
  IF p.callable THEN [p EXCEPT !.masked = TRUE]
  ELSE [p EXCEPT !.val = FrozenZero(p.val)]

(* Lines 501-506: the list is overwritten in place, the function is wrapped *)
FreezeList(Nv) == [i \in DOMAIN Nv |-> IF arg.frozen[i] THEN N_frozen ELSE Nv[i]]

(* Value of s or h when it is not a function; s(x) when it is *)
ParamAt(p, x2) == IF p.callable THEN CallParam(p, x2) ELSE p.val

-----------------------------------------------------------------------------
(* External collaborators, modelled from the specification *)

TimeCap == 2 ^ 30

(* Integration.compute_dt: the stability bound, a positive function of the *)
(* sizes and, through |s|, of selection; with s = 0 it depends on N alone. *)
compute_dt(Nv, sv) ==
  LET drift == { IF Nv[i] >= TimeCap \div UnitQ THEN TimeCap ELSE Nv[i] * UnitQ
                 : i \in DOMAIN Nv }
      sel   == { (2 * UnitQ) \div Abs(sv[i]) : i \in {j \in DOMAIN sv : sv[j] # 0} }
  IN  MinOf(drift \cup sel)

(* Numerics.compute_N_effective(Npop, t0, t1): the size averaged over       *)
(* [t0, t1] = [a2 / 2, b2 / 2]; a2 and b2 are on the tick grid.            *)
Clamp(x, lo, hi) == IF x < lo THEN lo ELSE IF x > hi THEN hi ELSE x

MeanOfUser(f, a2, b2) ==
  IF f.kind = "lin" THEN CallUser(f, fl((a2 + b2) \div 2))
  ELSE LET c1 == Clamp(f.at, a2, b2)
           c2 == Clamp(f.until, a2, b2)
           l1 == (c1 - a2) \div QPT
           l2 == (c2 - c1) \div QPT
           l3 == (b2 - c2) \div QPT
       IN  [i \in DOMAIN f.pre |->
              (f.pre[i] * l1 + f.post[i] * l2 + f.last[i] * l3) \div (l1 + l2 + l3)]

compute_N_effective(Np, a2, b2) ==
  IF a2 = b2 THEN CallNpop(Np, a2)
  ELSE IF Np.wrapped THEN FrozenSizes(MeanOfUser(Np.fn, a2, b2))
  ELSE MeanOfUser(Np.fn, a2, b2)

-----------------------------------------------------------------------------
(* The call: integrate_nomig(sfs0, Npop, tf, dt_fac, gamma, h, theta, ...)  *)
(* or integrate_neutral(sfs0, Npop, tf, dt_fac, theta, ...)                 *)

Tmax == arg.tf * 2 * UnitQ              \* Tmax = tf * 2.0
DtFac == Tmax \div arg.dt_fac_inv       \* Tmax * dt_fac, dt_fac = 1 / dt_fac_inv

NpopCallable == arg.Npop.form = "fun"

(* The rate arguments the mutation model reads *)
RateArgs == IF arg.finite_genome THEN {arg.theta_fd, arg.theta_bd} ELSE {arg.theta}

(* Mutant: the threshold is 1 instead of 0.5 *)
LargeChangeLoose(Nv, Nprev) ==
  \E i \in DOMAIN Nv : Abs(Nv[i] - Nprev[i]) > Nprev[i]

(* Mutant: no change of size is too large *)
LargeChangeNever(Nv, Nprev) == FALSE

(* np.max(np.abs(N - Nold) / Nold) > acceptable_change *)
LargeChange(Nv, Nprev) ==
  \E i \in DOMAIN Nv :
     acceptable_change_den * Abs(Nv[i] - Nprev[i]) > acceptable_change_num * Nprev[i]

(* Mutant: the last step is not clipped *)
ProposedDtUnclipped(tt, Nv, sv) ==
  IF compute_dt(Nv, sv) < DtFac THEN compute_dt(Nv, sv) ELSE DtFac

(* Lines 565-569 (763-767): the step proposed at clock tt *)
ProposedDt(tt, Nv, sv) ==
  LET d == IF compute_dt(Nv, sv) < DtFac THEN compute_dt(Nv, sv) ELSE DtFac
  IN  IF fl(tt + d) > Tmax THEN Tmax - tt ELSE d

(* Mutant: the sizes are evaluated where s and h are *)
SizeTimeMiddle(tt, d) == fl(tt + d \div 2)

(* Lines 583 and 592 (771 and 780): the argument of Npop((t + dt) / 2.0), as x2 *)
SizeTime(tt, d) == fl(tt + d)

(* Lines 582-583 (770-771): Npop is a function with a jump, and the step    *)
(* from a2 to b2 is the first evaluation of Npop at or after the jump       *)
PassesJump(a2, b2) ==
  /\ NpopCallable
  /\ arg.Npop.fn.kind = "step"
  /\ a2 < arg.Npop.fn.at /\ arg.Npop.fn.at <= b2

(* s and h handed to compute_dt: integrate_neutral leaves them at their defaults *)
SelForDt == IF integ = "nomig" THEN s_new ELSE Vec(arg.P, 0)

(* Mutant: the step size is left out of the test *)
MustRebuildWithoutDt(sn, hn) ==
  \/ t = 0
  \/ Nold # N
  \/ integ = "nomig" /\ (sn # s_old \/ hn # h_old)

(* Mutant: the dominance coefficients are left out of the test *)
MustRebuildWithoutH(sn, hn) ==
  \/ t = 0
  \/ Nold # N
  \/ dt # dt_old
  \/ integ = "nomig" /\ sn # s_old

(* Lines 617-623 (800-802): the operators are rebuilt *)
MustRebuild(sn, hn) ==
  \/ t = 0
  \/ Nold # N
  \/ dt # dt_old
  \/ integ = "nomig" /\ (sn # s_old \/ hn # h_old)

(* Mutant: the size evaluated inside the halving loop is not tested *)
HalvedSizeUnchecked(Nv) == FALSE

(* Lines 594-595 (782-783): the test of the size evaluated in the halving loop *)
HalvedSizeIsBad(Nv) == AnyNonPositive(Nv)

(* Lines 430-562 and 692-761: everything before the time loop *)
Enter ==
  /\ pc = "call"
  /\ IF \E th \in RateArgs : th.form = "fun"
       THEN \* theta / 4.0 with theta a function
            /\ pc' = "raised"
            /\ raised' = "TypeError"
            /\ UNCHANGED <<integ, arg, Npop_obj, s, h, u, v, Npop, N, Nold, Neff,
                           t, dt, dt_old, s_new, s_old, h_new, h_old, n_iter,
                           printed, halved, crossing, built, rebuilt, applied,
                           returned>>
       ELSE
         LET s0  == NormaliseParam(arg.gamma, 0)
             h0  == NormaliseParam(arg.h, h_default)
             u0  == RateVector(IF arg.finite_genome THEN arg.theta_fd ELSE arg.theta)
             v0  == IF arg.finite_genome THEN RateVector(arg.theta_bd) ELSE Unset
             s1  == IF AnyFrozen THEN FreezeParam(s0) ELSE s0
             lst == IF AnyFrozen /\ ~NpopCallable THEN FreezeList(Npop_obj) ELSE Npop_obj
             Np  == IF NpopCallable
                      THEN [callable |-> TRUE, fn |-> arg.Npop.fn, wrapped |-> AnyFrozen]
                      ELSE [callable |-> FALSE, fn |-> NoFn, wrapped |-> FALSE]
             N0  == IF NpopCallable THEN CallNpop(Np, 0) ELSE lst
             sn  == IF integ = "nomig" THEN ParamAt(s1, 0) ELSE Unset
             hn  == IF integ = "nomig" THEN ParamAt(h0, 0) ELSE Unset
         IN  /\ s' = IF integ = "nomig" THEN s1 ELSE NoParam
             /\ h' = IF integ = "nomig" THEN h0 ELSE NoParam
             /\ u' = IF AnyFrozen THEN FrozenZero(u0) ELSE u0
             /\ v' = IF AnyFrozen /\ arg.finite_genome THEN FrozenZero(v0) ELSE v0
             /\ Npop_obj' = lst
             /\ Npop' = Np
             /\ N' = N0
             /\ IF AnyNonPositive(N0)
                  THEN /\ pc' = "raised"
                       /\ raised' = "ValueError"
                       /\ UNCHANGED <<Nold, Neff, t, dt, s_new, s_old, h_new, h_old>>
                  ELSE /\ Nold' = N0
                       /\ Neff' = N0
                       /\ s_new' = sn /\ s_old' = sn
                       /\ h_new' = hn /\ h_old' = hn
                       /\ t' = 0
                       /\ dt' = DtFac
                       /\ pc' = IF 0 < Tmax THEN "loop" ELSE "done"
                       /\ raised' = NA
             /\ returned' = (~AnyNonPositive(N0) /\ ~(0 < Tmax))
             /\ UNCHANGED <<integ, arg, dt_old, n_iter, printed, halved, crossing,
                            built, rebuilt, applied>>

(* Lines 564-587 (762-775): the head of a step *)
Propose ==
  /\ pc = "loop"
  /\ LET d == ProposedDt(t, N, SelForDt)
     IN  /\ dt_old' = dt
         /\ dt' = d
         /\ printed' = FALSE
         /\ n_iter' = 0
         /\ crossing' = IF ~crossing.proposed /\ PassesJump(t, fl(t + d))
                           THEN [proposed |-> TRUE, in_step |-> TRUE, halved |-> FALSE]
                           ELSE [crossing EXCEPT !.in_step = FALSE]
         /\ IF Npop.callable
              THEN LET Nv == CallNpop(Npop, SizeTime(t, d))
                   IN  /\ N' = Nv
                       /\ halved' = TRUE
                       /\ IF AnyNonPositive(Nv)
                            THEN /\ pc' = "raised"
                                 /\ raised' = "ValueError"
                                 /\ UNCHANGED Neff
                            ELSE /\ Neff' = compute_N_effective(Npop, t, fl(t + d))
                                 /\ pc' = "halving"
                                 /\ UNCHANGED raised
              ELSE /\ pc' = "params"
                   /\ halved' = FALSE
                   /\ UNCHANGED <<N, Neff, raised>>
  /\ UNCHANGED <<integ, arg, Npop_obj, s, h, u, v, Npop, Nold, t,
                 s_new, s_old, h_new, h_old, built, rebuilt, applied, returned>>

(* Mutant: the halvings are not counted *)
LimitNeverReached(k) == FALSE

(* Line 600 (788): the loop is left after n_iter_max halvings *)
LimitReached(k) == k >= n_iter_max

(* Lines 591-609 (779-797): one pass of the halving loop *)
Halve ==
  /\ pc = "halving"
  /\ LargeChange(N, Nold)
  /\ LET d  == dt \div 2
         Nv == CallNpop(Npop, SizeTime(t, d))
     IN  /\ dt' = d
         /\ N' = Nv
         /\ crossing' = IF crossing.in_step THEN [crossing EXCEPT !.halved = TRUE]
                         ELSE crossing
         /\ IF HalvedSizeIsBad(Nv)
              THEN /\ pc' = "raised"
                   /\ raised' = "ValueError"
                   /\ UNCHANGED <<Neff, n_iter, printed>>
              ELSE /\ Neff' = compute_N_effective(Npop, t, fl(t + d))
                   /\ n_iter' = n_iter + 1
                   /\ printed' = LimitReached(n_iter + 1)
                   /\ pc' = IF LimitReached(n_iter + 1) THEN "params" ELSE "halving"
                   /\ UNCHANGED raised
  /\ UNCHANGED <<integ, arg, Npop_obj, s, h, u, v, Npop, Nold, t, dt_old,
                 s_new, s_old, h_new, h_old, halved, built, rebuilt, applied,
                 returned>>

(* Line 591 (779): the change is acceptable, the loop is left *)
Accept ==
  /\ pc = "halving"
  /\ ~LargeChange(N, Nold)
  /\ pc' = "params"
  /\ UNCHANGED <<integ, arg, Npop_obj, raised, s, h, u, v, Npop, N, Nold, Neff,
                 t, dt, dt_old, s_new, s_old, h_new, h_old, n_iter, printed,
                 halved, crossing, built, rebuilt, applied, returned>>

(* Lines 611-639 (799-813): s and h of the step, and the operators *)
Operators ==
  /\ pc = "params"
  /\ LET sn == IF integ = "nomig" THEN ParamAt(s, fl(t + dt \div 2)) ELSE Unset
         hn == IF integ = "nomig" THEN ParamAt(h, fl(t + dt \div 2)) ELSE Unset
     IN  /\ s_new' = sn
         /\ h_new' = hn
         /\ rebuilt' = MustRebuild(sn, hn)
         /\ built' = IF MustRebuild(sn, hn)
                       THEN [set |-> TRUE, Neff |-> Neff, s |-> sn, h |-> hn, dt |-> dt]
                       ELSE built
  /\ pc' = "apply"
  /\ UNCHANGED <<integ, arg, Npop_obj, raised, s, h, u, v, Npop, N, Nold, Neff,
                 t, dt, dt_old, s_old, h_old, n_iter, printed, halved, crossing,
                 applied, returned>>

(* Lines 641-664 (815-835): the update of the tensor, the clock, the return *)
Advance ==
  /\ pc = "apply"
  /\ applied' = [set |-> TRUE, from |-> t, dt |-> dt, ops |-> built, u |-> u, v |-> v]
  /\ Nold' = N
  /\ t' = fl(t + dt)
  /\ s_old' = s_new
  /\ h_old' = h_new
  /\ pc' = IF fl(t + dt) < Tmax THEN "loop" ELSE "done"
  /\ returned' = ~(fl(t + dt) < Tmax)
  /\ UNCHANGED <<integ, arg, Npop_obj, raised, s, h, u, v, Npop, N, Neff,
                 dt, dt_old, s_new, h_new, n_iter, printed, halved, crossing, built,
                 rebuilt>>

-----------------------------------------------------------------------------
(* The calls the model makes *)

Scalar(x) == [form |-> "scalar", val |-> <<x>>, fn |-> NoFn]
Vector(x) == [form |-> "vector", val |-> x, fn |-> NoFn]
None == [form |-> "none", val |-> <<>>, fn |-> NoFn]
Fun(f) == [form |-> "fun", val |-> <<>>, fn |-> f]
List(x) == [form |-> "list", val |-> x, fn |-> NoFn]

StepFn(ret, pre, post, at) ==
  [kind |-> "step", ret |-> ret, pre |-> pre, post |-> post, at |-> at,
   until |-> TimeCap, last |-> post, rate |-> <<>>]
PulseFn(pre, post, at, until, last) ==
  [kind |-> "step", ret |-> "vector", pre |-> pre, post |-> post, at |-> at,
   until |-> until, last |-> last, rate |-> <<>>]
LinFn(pre, rate) ==
  [kind |-> "lin", ret |-> "vector", pre |-> pre, post |-> pre, at |-> 0,
   until |-> 0, last |-> pre, rate |-> rate]

(* Jump times of the step functions, as x2: at time 0, one and two ticks *)
(* after 0, and at every whole time unit up to the largest final time    *)
JumpTimes == {0, QPT, 2 * QPT} \cup {2 * k * UnitQ : k \in 1..MaxTf} \cup {UnitQ}

Sizes1 ==
  {List(<<x>>) : x \in {1, 2, 3, 0, -1}}
  \cup {Fun(StepFn("vector", <<a>>, <<b>>, at)) :
          a \in {1, 2}, b \in {1, 4, 0}, at \in JumpTimes}
  \cup {Fun(LinFn(<<a>>, <<r>>)) : a \in {1, 2}, r \in {8, -1}}
  \cup {Fun(PulseFn(<<2>>, <<b>>, at, at + UnitQ \div 2, <<4>>)) :
          b \in {0, 2}, at \in {UnitQ, 2 * UnitQ + UnitQ \div 2}}

Sizes2 ==
  {List(x) : x \in {<<1, 2>>, <<2, 0>>, <<-1, 1>>}}
  \cup {Fun(StepFn("vector", <<1, 2>>, b, at)) :
          b \in {<<1, 2>>, <<4, 2>>, <<1, 0>>, <<1, 4>>}, at \in JumpTimes}
  \cup {Fun(LinFn(<<1, 2>>, r)) : r \in {<<8, 0>>, <<0, -1>>}}

Gammas2 ==
  {None, Scalar(0), Scalar(1), Vector(<<1, 0>>), Vector(<<0, 2>>),
   Fun(StepFn("scalar", <<0>>, <<1>>, UnitQ)),
   Fun(StepFn("vector", <<1, 0>>, <<1, 2>>, UnitQ))}

Doms2 ==
  {None, Scalar(2), Vector(<<5, 2>>),
   Fun(StepFn("scalar", <<5>>, <<2>>, UnitQ)),
   Fun(StepFn("vector", <<5, 2>>, <<2, 2>>, 2 * UnitQ))}

Theta2 == {Scalar(4), Vector(<<4, 8>>), Fun(StepFn("scalar", <<4>>, <<8>>, UnitQ))}

Args(P, Np, tf, inv, g, hh, th, fg, fd, bd, fr) ==
  [P |-> P, Npop |-> Np, tf |-> tf, dt_fac_inv |-> inv, gamma |-> g, h |-> hh,
   theta |-> th, finite_genome |-> fg, theta_fd |-> fd, theta_bd |-> bd,
   frozen |-> fr]

(* One population: the size schedules *)
CallsSizes1 ==
  {Args(1, Np, tf, inv, None, None, Scalar(4), FALSE, None, None, fr) :
     Np \in Sizes1, tf \in 1..MaxTf, inv \in {1, 2}, fr \in {<<FALSE>>, <<TRUE>>}}

(* Two populations: the size schedules and the frozen vectors *)
CallsSizes2 ==
  {Args(2, Np, tf, 1, g, None, Scalar(4), FALSE, None, None, fr) :
     Np \in Sizes2, tf \in 1..MaxTf, g \in {None, Vector(<<0, 2>>)},
     fr \in {<<FALSE, FALSE>>, <<TRUE, FALSE>>, <<FALSE, TRUE>>, <<TRUE, TRUE>>}}

(* Two populations: the forms of gamma, h and the mutation rates *)
CallsParams ==
  {Args(2, Np, 1, 1, g, hh, th, FALSE, None, None, fr) :
     Np \in {List(<<1, 2>>), Fun(StepFn("vector", <<1, 2>>, <<1, 4>>, UnitQ))},
     g \in Gammas2, hh \in Doms2, th \in Theta2,
     fr \in {<<FALSE, FALSE>>, <<FALSE, TRUE>>}}
  \cup
  {Args(2, Np, 1, 1, g, None, Scalar(4), TRUE, fd, bd, fr) :
     Np \in {List(<<1, 2>>), List(<<1, 0>>)},
     g \in {None, Scalar(1)}, fd \in Theta2, bd \in {Scalar(8), Vector(<<8, 4>>)},
     fr \in {<<FALSE, FALSE>>, <<FALSE, TRUE>>}}

Calls == CallsSizes1 \cup CallsSizes2 \cup CallsParams

(* No driver is called directly *)
DrvIdle == tpc = "off" /\ tsfs = NoMatrix /\ tops = NoOperators /\ tret = NoResult

(* No pair of calls is followed *)
RunsIdle ==
  /\ sfs0 = NoMatrix
  /\ run_nomig = [NoRun EXCEPT !.pc = "off"]
  /\ run_neutral = [NoRun EXCEPT !.pc = "off"]

(* Spectrum.integrate is not called *)
IntgIdle ==
  ipc = "off" /\ iarg = <<>> /\ idata = "initial" /\ imask = "corners" /\ iout = NoOut

(* integrate_neutral takes no gamma and no h *)
Init ==
  /\ DrvIdle /\ RunsIdle /\ IntgIdle
  /\ pc = "call"
  /\ integ \in {"nomig", "neutral"}
  /\ arg \in Calls
  /\ integ = "neutral" => arg.gamma = None /\ arg.h = None
  /\ Npop_obj = IF arg.Npop.form = "list" THEN arg.Npop.val ELSE <<>>
  /\ raised = NA
  /\ s = NoParam /\ h = NoParam /\ u = Unset /\ v = Unset
  /\ Npop = [callable |-> FALSE, fn |-> NoFn, wrapped |-> FALSE]
  /\ N = Unset /\ Nold = Unset /\ Neff = Unset
  /\ t = 0 /\ dt = 0 /\ dt_old = 0
  /\ s_new = Unset /\ s_old = Unset /\ h_new = Unset /\ h_old = Unset
  /\ n_iter = 0
  /\ printed = FALSE
  /\ halved = FALSE
  /\ crossing = NoCrossing
  /\ built = NoOps
  /\ rebuilt = FALSE
  /\ applied = NoUpdate
  /\ returned = FALSE

Next ==
  \/ Enter /\ UNCHANGED <<drv, runs, intg>>
  \/ Propose /\ UNCHANGED <<drv, runs, intg>>
  \/ Halve /\ UNCHANGED <<drv, runs, intg>>
  \/ Accept /\ UNCHANGED <<drv, runs, intg>>
  \/ Operators /\ UNCHANGED <<drv, runs, intg>>
  \/ Advance /\ UNCHANGED <<drv, runs, intg>>

(* No integrator is called *)
NoCall == Args(1, List(<<1>>), 1, 1, None, None, Scalar(4), FALSE, None, None, <<FALSE>>)

CtlOff ==
  /\ pc = "off" /\ integ = "nomig" /\ Npop_obj = <<>> /\ raised = NA
  /\ s = NoParam /\ h = NoParam /\ u = Unset /\ v = Unset
  /\ Npop = [callable |-> FALSE, fn |-> NoFn, wrapped |-> FALSE]
  /\ N = Unset /\ Nold = Unset /\ Neff = Unset
  /\ t = 0 /\ dt = 0 /\ dt_old = 0
  /\ s_new = Unset /\ s_old = Unset /\ h_new = Unset /\ h_old = Unset
  /\ n_iter = 0 /\ printed = FALSE /\ halved = FALSE /\ crossing = NoCrossing
  /\ built = NoOps /\ rebuilt = FALSE /\ applied = NoUpdate /\ returned = FALSE

CtlIdle == CtlOff /\ arg = NoCall

Spec == Init /\ [][Next]_vars

(* The loop is sequential code: a step that can be taken is taken *)
FairSpec == Spec /\ WF_vars(Next)

-----------------------------------------------------------------------------
(* Numbers.  The entries of a tensor and of an operator are rationals       *)
(* <<n, d>> in lowest terms with d > 0 (the code computes in binary64;      *)
(* equalities of the model are equalities of the exact values).             *)

RECURSIVE GCD(_, _)
GCD(a, b) == IF b = 0 THEN a ELSE GCD(b, a % b)

Rat(n, d) ==
  LET g == GCD(Abs(n), Abs(d))
  IN  IF d < 0 THEN <<(-n) \div g, (-d) \div g>> ELSE <<n \div g, d \div g>>

R0 == <<0, 1>>
R1 == <<1, 1>>
RInt(n) == <<n, 1>>
(* Sums and products cancel common factors before they multiply *)
RAdd(a, b) ==
  LET g == GCD(a[2], b[2])
  IN  Rat(a[1] * (b[2] \div g) + b[1] * (a[2] \div g), (a[2] \div g) * b[2])
RNeg(a) == <<-a[1], a[2]>>
RSub(a, b) == RAdd(a, RNeg(b))
RMul(a, b) ==
  LET g == GCD(Abs(a[1]), b[2])
      k == GCD(Abs(b[1]), a[2])
  IN  Rat((a[1] \div g) * (b[1] \div k), (a[2] \div k) * (b[2] \div g))
RInv(a) == IF a[1] < 0 THEN <<-a[2], -a[1]>> ELSE <<a[2], a[1]>>
RDiv(a, b) == RMul(a, RInv(b))

RECURSIVE RSum(_)
RSum(xs) == IF xs = <<>> THEN R0 ELSE RAdd(Head(xs), RSum(Tail(xs)))

-----------------------------------------------------------------------------
(* Arrays.  An ndarray is a record: shape, and at, the entry at every index *)
(* tuple; an index runs from 0 as in the code.  A matrix is an array of     *)
(* rank 2, a vector is a sequence.                                          *)

Range(n) == 0..(n - 1)

(* The entries of an array are stored: computed once, when it is made *)
Stored(f) == f @@ <<>>
MaxOf(S) == CHOOSE x \in S : \A y \in S : y <= x

Idx(shape) ==
  {ix \in [1..Len(shape) -> Range(MaxOf({shape[a] : a \in 1..Len(shape)}))] :
     \A a \in 1..Len(shape) : ix[a] < shape[a]}

(* np.transpose(sfs, perm): axis a of the result is axis perm[a] of sfs *)
transpose(T, perm) ==
  LET k  == Len(T.shape)
      sh == [a \in 1..k |-> T.shape[perm[a] + 1]]
  IN  [shape |-> sh,
       at |-> Stored([ix \in Idx(sh) |->
                 T.at[[b \in 1..k |-> ix[CHOOSE a \in 1..k : perm[a] + 1 = b]]]])]

(* Position of an index tuple in the row-major (C) order of the entries *)
RECURSIVE Flat(_, _)
Flat(ix, shape) ==
  IF ix = <<>> THEN 0
  ELSE Flat(SubSeq(ix, 1, Len(ix) - 1), SubSeq(shape, 1, Len(shape) - 1))
         * shape[Len(shape)] + ix[Len(ix)]

(* sfs.reshape(sh): the same entries in the same row-major order *)
reshape(T, sh) ==
  [shape |-> sh,
   at |-> Stored([nx \in Idx(sh) |->
             T.at[CHOOSE ix \in DOMAIN T.at : Flat(ix, T.shape) = Flat(nx, sh)]])]

(* np.prod(dims[1::]) *)
RECURSIVE prod(_)
prod(xs) == IF xs = <<>> THEN 1 ELSE Head(xs) * prod(Tail(xs))

(* M.dot(T) of a matrix and an array of rank 2 *)
dot(M, T) ==
  LET sh == <<M.shape[1], T.shape[2]>>
  IN  [shape |-> sh,
       at |-> Stored([ix \in Idx(sh) |->
                 RSum([j \in 1..M.shape[2] |->
                         RMul(M.at[<<ix[1], j - 1>>], T.at[<<j - 1, ix[2]>>])])])]

(* M.dot(x) of a matrix and a vector *)
matvec(M, x) ==
  [i \in 1..M.shape[1] |->
     RSum([j \in 1..M.shape[2] |-> RMul(M.at[<<i - 1, j - 1>>], x[j])])]

(* The index tuple ix without its entry for axis a, and o with j put there *)
Others(ix, a) == SubSeq(ix, 1, a - 1) \o SubSeq(ix, a + 1, Len(ix))
With(o, a, j) == SubSeq(o, 1, a - 1) \o <<j>> \o SubSeq(o, a, Len(o))

(* sfs[o with ':' at axis a]: a 1-D slice, as a vector *)
Slice(T, a, o) == [j \in 1..T.shape[a] |-> T.at[With(o, a, j - 1)]]

-----------------------------------------------------------------------------
(* Solvers.  Tridiag_solve is not part of the sources at hand: solve is     *)
(* modelled as the solution x of the tridiagonal system                     *)
(*   A[i] x[i-1] + Di[i] x[i] + C[i] x[i+1] = r[i]                          *)
(* by forward elimination and back substitution; A, Di and C have one entry *)
(* per row (A[1] and the last C multiply nothing).                          *)

RECURSIVE ts_forward(_, _, _, _, _)
ts_forward(A, Di, C, r, i) ==
  IF i = 0 THEN <<>>
  ELSE LET prev == ts_forward(A, Di, C, r, i - 1)
           cp   == IF i = 1 THEN R0 ELSE prev[i - 1][1]
           dp   == IF i = 1 THEN R0 ELSE prev[i - 1][2]
           den  == RSub(Di[i], RMul(A[i], cp))
       IN  Append(prev, <<RDiv(C[i], den), RDiv(RSub(r[i], RMul(A[i], dp)), den)>>)

RECURSIVE ts_back(_, _)
ts_back(f, i) ==
  IF i = Len(f) THEN <<f[i][2]>>
  ELSE LET rest == ts_back(f, i + 1)
       IN  <<RSub(f[i][2], RMul(f[i][1], rest[1]))>> \o rest

ts_solve(A, Di, C, r) == ts_back(ts_forward(A, Di, C, r, Len(r)), 1)

(* ts.mat_to_diag: the three diagonals of a matrix *)
mat_to_diag(M) ==
  LET n == M.shape[1]
  IN  << [i \in 1..n |-> IF i = 1 THEN R0 ELSE M.at[<<i - 1, i - 2>>]],
         [i \in 1..n |-> M.at[<<i - 1, i - 1>>]],
         [i \in 1..n |-> IF i = n THEN R0 ELSE M.at[<<i - 1, i>>]] >>

(* A solver is what a step-2 function calls on a slice: the callable        *)
(* lambda x: M.dot(x), the callable linalg.factorized(M), or the three      *)
(* diagonals handed to ts.solve.                                            *)
Apply(M) == [kind |-> "apply", M |-> M, A |-> <<>>, Di |-> <<>>, C |-> <<>>]
Factorized(M) == [kind |-> "factorized", M |-> M, A |-> <<>>, Di |-> <<>>, C |-> <<>>]
Tridiag(A, Di, C) == [kind |-> "tridiag", M |-> NoMatrix, A |-> A, Di |-> Di, C |-> C]

Solve(slv, x) ==
  IF slv.kind = "apply" THEN matvec(slv.M, x)
  ELSE IF slv.kind = "factorized"
    THEN ts_solve(mat_to_diag(slv.M)[1], mat_to_diag(slv.M)[2], mat_to_diag(slv.M)[3], x)
  ELSE ts_solve(slv.A, slv.Di, slv.C, x)

(* What an index outside the array leaves behind *)
IndexError == NoMatrix

(* for o in visited: sfs[o with ':' at axis a] = slv(sfs[o with ':' at axis a]) *)
SetSlices(T, a, visited, slv) ==
  IF \E o \in visited : With(o, a, 0) \notin DOMAIN T.at THEN IndexError
  ELSE [shape |-> T.shape,
        at |-> Stored([ix \in DOMAIN T.at |->
                  IF Others(ix, a) \in visited
                    THEN Solve(slv, Slice(T, a, Others(ix, a)))[ix[a] + 1]
                    ELSE T.at[ix]])]

-----------------------------------------------------------------------------
(* Lines 54-373: the functions that treat one axis of a tensor of rank 2..5 *)

ud1_2pop_1(sfs, Q) ==
  dot(Q[1], sfs)

(* Mutant: the transposition is not undone *)
ud1_2pop_2_NotUndone(sfs, Q) ==
  dot(Q[2], transpose(sfs, <<1, 0>>))

ud1_2pop_2(sfs, Q) ==
  transpose(dot(Q[2], transpose(sfs, <<1, 0>>)), <<1, 0>>)

ud2_2pop_1(sfs, slv) ==
  SetSlices(sfs, 1, {<<i>> : i \in Range(sfs.shape[2])},
            slv[1])

(* Mutant: the second axis is left as it is *)
ud2_2pop_2_Skipped(sfs, slv) ==
  sfs

ud2_2pop_2(sfs, slv) ==
  SetSlices(sfs, 2, {<<i>> : i \in Range(sfs.shape[1])},
            slv[2])

ud1_3pop_1(sfs, Q) ==
  LET dims == sfs.shape
      dim2 == prod(Tail(dims))
  IN  reshape(dot(Q[1], reshape(sfs, <<dims[1], dim2>>)), dims)

ud1_3pop_2(sfs, Q) ==
  transpose(ud1_3pop_1(transpose(sfs, <<1, 0, 2>>), <<Q[2]>>), <<1, 0, 2>>)

ud1_3pop_3(sfs, Q) ==
  transpose(ud1_3pop_1(transpose(sfs, <<2, 1, 0>>), <<Q[3]>>), <<2, 1, 0>>)

ud2_3pop_1(sfs, slv) ==
  SetSlices(sfs, 1, {<<j, i>> : i \in Range(sfs.shape[3]), j \in Range(sfs.shape[2])},
            slv[1])

ud2_3pop_2_FirstOperator(sfs, slv) ==
  SetSlices(sfs, 2, {<<j, i>> : i \in Range(sfs.shape[3]), j \in Range(sfs.shape[1])},
            slv[1])

ud2_3pop_2(sfs, slv) ==
  SetSlices(sfs, 2, {<<j, i>> : i \in Range(sfs.shape[3]), j \in Range(sfs.shape[1])},
            slv[2])

ud2_3pop_3(sfs, slv) ==
  SetSlices(sfs, 3, {<<j, i>> : i \in Range(sfs.shape[2]), j \in Range(sfs.shape[1])},
            slv[3])

ud1_4pop_1(sfs, Q) ==
  ud1_3pop_1(sfs, Q)

ud1_4pop_2(sfs, Q) ==
  transpose(ud1_4pop_1(transpose(sfs, <<1, 0, 2, 3>>), <<Q[2]>>), <<1, 0, 2, 3>>)

ud1_4pop_3(sfs, Q) ==
  transpose(ud1_4pop_1(transpose(sfs, <<2, 1, 0, 3>>), <<Q[3]>>), <<2, 1, 0, 3>>)

ud1_4pop_4(sfs, Q) ==
  transpose(ud1_4pop_1(transpose(sfs, <<3, 1, 2, 0>>), <<Q[4]>>), <<3, 1, 2, 0>>)

ud2_4pop_1(sfs, slv) ==
  SetSlices(sfs, 1, {<<i, j, k>> : i \in Range(sfs.shape[2]), j \in Range(sfs.shape[3]), k \in Range(sfs.shape[4])},
            slv[1])

ud2_4pop_2(sfs, slv) ==
  SetSlices(sfs, 2, {<<i, j, k>> : i \in Range(sfs.shape[1]), j \in Range(sfs.shape[3]), k \in Range(sfs.shape[4])},
            slv[2])

ud2_4pop_3(sfs, slv) ==
  SetSlices(sfs, 3, {<<i, j, k>> : i \in Range(sfs.shape[1]), j \in Range(sfs.shape[2]), k \in Range(sfs.shape[4])},
            slv[3])

ud2_4pop_4(sfs, slv) ==
  SetSlices(sfs, 4, {<<i, j, k>> : i \in Range(sfs.shape[1]), j \in Range(sfs.shape[2]), k \in Range(sfs.shape[3])},
            slv[4])

ud1_5pop_1(sfs, Q) ==
  ud1_3pop_1(sfs, Q)

ud1_5pop_2(sfs, Q) ==
  transpose(ud1_5pop_1(transpose(sfs, <<1, 0, 2, 3, 4>>), <<Q[2]>>), <<1, 0, 2, 3, 4>>)

ud1_5pop_3(sfs, Q) ==
  transpose(ud1_5pop_1(transpose(sfs, <<2, 1, 0, 3, 4>>), <<Q[3]>>), <<2, 1, 0, 3, 4>>)

ud1_5pop_4(sfs, Q) ==
  transpose(ud1_5pop_1(transpose(sfs, <<3, 1, 2, 0, 4>>), <<Q[4]>>), <<3, 1, 2, 0, 4>>)

ud1_5pop_5(sfs, Q) ==
  transpose(ud1_5pop_1(transpose(sfs, <<4, 1, 2, 3, 0>>), <<Q[5]>>), <<4, 1, 2, 3, 0>>)

ud2_5pop_1(sfs, slv) ==
  SetSlices(sfs, 1, {<<i, j, k, l>> : i \in Range(sfs.shape[2]), j \in Range(sfs.shape[3]), k \in Range(sfs.shape[4]), l \in Range(sfs.shape[5])},
            slv[1])

ud2_5pop_2(sfs, slv) ==
  SetSlices(sfs, 2, {<<i, j, k, l>> : i \in Range(sfs.shape[1]), j \in Range(sfs.shape[3]), k \in Range(sfs.shape[4]), l \in Range(sfs.shape[5])},
            slv[2])

ud2_5pop_3(sfs, slv) ==
  SetSlices(sfs, 3, {<<i, j, k, l>> : i \in Range(sfs.shape[1]), j \in Range(sfs.shape[2]), k \in Range(sfs.shape[4]), l \in Range(sfs.shape[5])},
            slv[3])

ud2_5pop_4(sfs, slv) ==
  SetSlices(sfs, 4, {<<i, j, k, l>> : i \in Range(sfs.shape[1]), j \in Range(sfs.shape[2]), k \in Range(sfs.shape[3]), l \in Range(sfs.shape[5])},
            slv[4])

ud2_5pop_5(sfs, slv) ==
  SetSlices(sfs, 5, {<<i, j, k, l>> : i \in Range(sfs.shape[1]), j \in Range(sfs.shape[2]), k \in Range(sfs.shape[3]), l \in Range(sfs.shape[4])},
            slv[5])

udn2_2pop_1(sfs, A, Di, C) ==
  SetSlices(sfs, 1, {<<i>> : i \in Range(sfs.shape[2])},
            Tridiag(A[1], Di[1], C[1]))

(* Mutant: the array comes back with its two axes exchanged *)
udn2_2pop_2_Transposed(sfs, A, Di, C) ==
  transpose(SetSlices(sfs, 2, {<<i>> : i \in Range(sfs.shape[1])},
                      Tridiag(A[2], Di[2], C[2])), <<1, 0>>)

udn2_2pop_2(sfs, A, Di, C) ==
  SetSlices(sfs, 2, {<<i>> : i \in Range(sfs.shape[1])},
            Tridiag(A[2], Di[2], C[2]))

udn2_3pop_1(sfs, A, Di, C) ==
  SetSlices(sfs, 1, {<<j, i>> : i \in Range(sfs.shape[3]), j \in Range(sfs.shape[2])},
            Tridiag(A[1], Di[1], C[1]))

udn2_3pop_2(sfs, A, Di, C) ==
  SetSlices(sfs, 2, {<<j, i>> : i \in Range(sfs.shape[3]), j \in Range(sfs.shape[1])},
            Tridiag(A[2], Di[2], C[2]))

udn2_3pop_3(sfs, A, Di, C) ==
  SetSlices(sfs, 3, {<<j, i>> : i \in Range(sfs.shape[2]), j \in Range(sfs.shape[1])},
            Tridiag(A[3], Di[3], C[3]))

udn2_4pop_1(sfs, A, Di, C) ==
  SetSlices(sfs, 1, {<<i, j, k>> : i \in Range(sfs.shape[2]), j \in Range(sfs.shape[3]), k \in Range(sfs.shape[4])},
            Tridiag(A[1], Di[1], C[1]))

udn2_4pop_2(sfs, A, Di, C) ==
  SetSlices(sfs, 2, {<<i, j, k>> : i \in Range(sfs.shape[1]), j \in Range(sfs.shape[3]), k \in Range(sfs.shape[4])},
            Tridiag(A[2], Di[2], C[2]))

udn2_4pop_3(sfs, A, Di, C) ==
  SetSlices(sfs, 3, {<<i, j, k>> : i \in Range(sfs.shape[1]), j \in Range(sfs.shape[2]), k \in Range(sfs.shape[4])},
            Tridiag(A[3], Di[3], C[3]))

udn2_4pop_4(sfs, A, Di, C) ==
  SetSlices(sfs, 4, {<<i, j, k>> : i \in Range(sfs.shape[1]), j \in Range(sfs.shape[2]), k \in Range(sfs.shape[3])},
            Tridiag(A[4], Di[4], C[4]))

udn2_5pop_1(sfs, A, Di, C) ==
  SetSlices(sfs, 1, {<<i, j, k, l>> : i \in Range(sfs.shape[2]), j \in Range(sfs.shape[3]), k \in Range(sfs.shape[4]), l \in Range(sfs.shape[5])},
            Tridiag(A[1], Di[1], C[1]))

udn2_5pop_2(sfs, A, Di, C) ==
  SetSlices(sfs, 2, {<<i, j, k, l>> : i \in Range(sfs.shape[1]), j \in Range(sfs.shape[3]), k \in Range(sfs.shape[4]), l \in Range(sfs.shape[5])},
            Tridiag(A[2], Di[2], C[2]))

udn2_5pop_3(sfs, A, Di, C) ==
  SetSlices(sfs, 3, {<<i, j, k, l>> : i \in Range(sfs.shape[1]), j \in Range(sfs.shape[2]), k \in Range(sfs.shape[4]), l \in Range(sfs.shape[5])},
            Tridiag(A[3], Di[3], C[3]))

udn2_5pop_4(sfs, A, Di, C) ==
  SetSlices(sfs, 4, {<<i, j, k, l>> : i \in Range(sfs.shape[1]), j \in Range(sfs.shape[2]), k \in Range(sfs.shape[3]), l \in Range(sfs.shape[5])},
            Tridiag(A[4], Di[4], C[4]))

udn2_5pop_5(sfs, A, Di, C) ==
  SetSlices(sfs, 5, {<<i, j, k, l>> : i \in Range(sfs.shape[1]), j \in Range(sfs.shape[2]), k \in Range(sfs.shape[3]), l \in Range(sfs.shape[4])},
            Tridiag(A[5], Di[5], C[5]))

-----------------------------------------------------------------------------
(* Lines 377-397: the drivers.  eval(name) of a function that does not      *)
(* exist raises NameError.                                                  *)

ud1(n, i, sfs, Q) ==
  CASE n = 2 /\ i = 1 -> ud1_2pop_1(sfs, Q) [] n = 2 /\ i = 2 -> ud1_2pop_2(sfs, Q)
    [] n = 3 /\ i = 1 -> ud1_3pop_1(sfs, Q) [] n = 3 /\ i = 2 -> ud1_3pop_2(sfs, Q)
    [] n = 3 /\ i = 3 -> ud1_3pop_3(sfs, Q)
    [] n = 4 /\ i = 1 -> ud1_4pop_1(sfs, Q) [] n = 4 /\ i = 2 -> ud1_4pop_2(sfs, Q)
    [] n = 4 /\ i = 3 -> ud1_4pop_3(sfs, Q) [] n = 4 /\ i = 4 -> ud1_4pop_4(sfs, Q)
    [] n = 5 /\ i = 1 -> ud1_5pop_1(sfs, Q) [] n = 5 /\ i = 2 -> ud1_5pop_2(sfs, Q)
    [] n = 5 /\ i = 3 -> ud1_5pop_3(sfs, Q) [] n = 5 /\ i = 4 -> ud1_5pop_4(sfs, Q)
    [] n = 5 /\ i = 5 -> ud1_5pop_5(sfs, Q)

ud2(n, i, sfs, slv) ==
  CASE n = 2 /\ i = 1 -> ud2_2pop_1(sfs, slv) [] n = 2 /\ i = 2 -> ud2_2pop_2(sfs, slv)
    [] n = 3 /\ i = 1 -> ud2_3pop_1(sfs, slv) [] n = 3 /\ i = 2 -> ud2_3pop_2(sfs, slv)
    [] n = 3 /\ i = 3 -> ud2_3pop_3(sfs, slv)
    [] n = 4 /\ i = 1 -> ud2_4pop_1(sfs, slv) [] n = 4 /\ i = 2 -> ud2_4pop_2(sfs, slv)
    [] n = 4 /\ i = 3 -> ud2_4pop_3(sfs, slv) [] n = 4 /\ i = 4 -> ud2_4pop_4(sfs, slv)
    [] n = 5 /\ i = 1 -> ud2_5pop_1(sfs, slv) [] n = 5 /\ i = 2 -> ud2_5pop_2(sfs, slv)
    [] n = 5 /\ i = 3 -> ud2_5pop_3(sfs, slv) [] n = 5 /\ i = 4 -> ud2_5pop_4(sfs, slv)
    [] n = 5 /\ i = 5 -> ud2_5pop_5(sfs, slv)

udn2(n, i, sfs, A, Di, C) ==
  CASE n = 2 /\ i = 1 -> udn2_2pop_1(sfs, A, Di, C)
    [] n = 2 /\ i = 2 -> udn2_2pop_2(sfs, A, Di, C)
    [] n = 3 /\ i = 1 -> udn2_3pop_1(sfs, A, Di, C)
    [] n = 3 /\ i = 2 -> udn2_3pop_2(sfs, A, Di, C)
    [] n = 3 /\ i = 3 -> udn2_3pop_3(sfs, A, Di, C)
    [] n = 4 /\ i = 1 -> udn2_4pop_1(sfs, A, Di, C)
    [] n = 4 /\ i = 2 -> udn2_4pop_2(sfs, A, Di, C)
    [] n = 4 /\ i = 3 -> udn2_4pop_3(sfs, A, Di, C)
    [] n = 4 /\ i = 4 -> udn2_4pop_4(sfs, A, Di, C)
    [] n = 5 /\ i = 1 -> udn2_5pop_1(sfs, A, Di, C)
    [] n = 5 /\ i = 2 -> udn2_5pop_2(sfs, A, Di, C)
    [] n = 5 /\ i = 3 -> udn2_5pop_3(sfs, A, Di, C)
    [] n = 5 /\ i = 4 -> udn2_5pop_4(sfs, A, Di, C)
    [] n = 5 /\ i = 5 -> udn2_5pop_5(sfs, A, Di, C)

(* The functions the module defines: ranks 2 to 5 *)
Defined(n) == n \in 2..5

Ok(x) == [err |-> NA, sfs |-> x]
Err(e, x) == [err |-> e, sfs |-> x]

RECURSIVE step1_loop(_, _, _)
step1_loop(sfs, Q, i) ==
  IF i > Len(sfs.shape) THEN Ok(sfs)
  ELSE step1_loop(ud1(Len(sfs.shape), i, sfs, Q), Q, i + 1)

update_step1(sfs, Q) ==
  IF Len(Q) # Len(sfs.shape) THEN Err("AssertionError", sfs)
  ELSE IF ~Defined(Len(sfs.shape)) THEN Err("NameError", sfs)
  ELSE step1_loop(sfs, Q, 1)

RECURSIVE step2_loop(_, _, _)
step2_loop(sfs, slv, i) ==
  IF i > Len(sfs.shape) THEN Ok(sfs)
  ELSE LET r == ud2(Len(sfs.shape), i, sfs, slv)
       IN  IF r = IndexError THEN Err("IndexError", sfs)
           ELSE step2_loop(r, slv, i + 1)

update_step2(sfs, slv) ==
  IF Len(slv) # Len(sfs.shape) THEN Err("AssertionError", sfs)
  ELSE IF ~Defined(Len(sfs.shape)) THEN Err("NameError", sfs)
  ELSE step2_loop(sfs, slv, 1)

(* Di[i] or C[i] of a list that is too short raises IndexError *)
RECURSIVE step2_neutral_loop(_, _, _, _, _)
step2_neutral_loop(sfs, A, Di, C, i) ==
  IF i > Len(sfs.shape) THEN Ok(sfs)
  ELSE IF i > Len(Di) \/ i > Len(C) THEN Err("IndexError", sfs)
  ELSE LET r == udn2(Len(sfs.shape), i, sfs, A, Di, C)
       IN  IF r = IndexError THEN Err("IndexError", sfs)
           ELSE step2_neutral_loop(r, A, Di, C, i + 1)

update_step2_neutral(sfs, A, Di, C) ==
  IF Len(A) # Len(sfs.shape) THEN Err("AssertionError", sfs)
  ELSE IF ~Defined(Len(sfs.shape)) THEN Err("NameError", sfs)
  ELSE step2_neutral_loop(sfs, A, Di, C, 1)

-----------------------------------------------------------------------------
(* Direct calls of the drivers: the arrays and the operators handed in *)

Ramp(shape) ==
  [shape |-> shape, at |-> Stored([ix \in Idx(shape) |-> RInt(1 + Flat(ix, shape))])]
Mixed(shape) ==
  [shape |-> shape,
   at |-> Stored([ix \in Idx(shape) |->
             Rat(((Flat(ix, shape) * Flat(ix, shape)) % 5) - 2, 1 + (Flat(ix, shape) % 2))])]

(* np.eye(n), and a matrix with 1 on the diagonal and x below it *)
eye(n) ==
  [shape |-> <<n, n>>,
   at |-> Stored([ix \in Idx(<<n, n>>) |-> IF ix[1] = ix[2] THEN R1 ELSE R0])]
Lower(n, x) ==
  [shape |-> <<n, n>>,
   at |-> Stored([ix \in Idx(<<n, n>>) |->
             IF ix[1] = ix[2] THEN R1 ELSE IF ix[1] = ix[2] + 1 THEN x ELSE R0])]

Shapes ==
  {<<3>>, <<2, 3>>, <<3, 2>>, <<2, 3, 2>>, <<3, 2, 2>>, <<2, 2, 3>>,
   <<2, 3, 2, 2>>, <<2, 2, 2, 3>>, <<2, 2, 3, 2, 2>>, <<3, 2, 2, 2, 2>>}

(* One operator per entry of kinds; axis k of the array has length shape[k] *)
(* (an operator past the last axis is given the length of the first)        *)
AxisLen(shape, k) == IF k <= Len(shape) THEN shape[k] ELSE shape[1]
Matrix(kind, n) == IF kind = "eye" THEN eye(n) ELSE Lower(n, RInt(2))

AxisOperators(shape, kinds, form) ==
  LET M(k) == Matrix(kinds[k], AxisLen(shape, k))
  IN  [Q   |-> [k \in 1..Len(kinds) |-> M(k)],
       slv |-> [k \in 1..Len(kinds) |->
                  IF form = "apply" THEN Apply(M(k)) ELSE Factorized(M(k))],
       A   |-> [k \in 1..Len(kinds) |-> mat_to_diag(M(k))[1]],
       Di  |-> [k \in 1..Len(kinds) |-> mat_to_diag(M(k))[2]],
       C   |-> [k \in 1..Len(kinds) |-> mat_to_diag(M(k))[3]]]

(* The lists of diagonals handed to _update_step2_neutral with Di or C one *)
(* entry shorter or longer than A                                          *)
Cuts == {"none", "Di short", "C short", "Di long"}

CutList(ops, cut) ==
  CASE cut = "Di short" -> [ops EXCEPT !.Di = SubSeq(ops.Di, 1, Len(ops.Di) - 1)]
    [] cut = "C short" -> [ops EXCEPT !.C = SubSeq(ops.C, 1, Len(ops.C) - 1)]
    [] cut = "Di long" -> [ops EXCEPT !.Di = Append(ops.Di, ops.Di[1])]
    [] OTHER -> ops

KindsFor(shape) ==
  LET n == Len(shape)
  IN  {[k \in 1..m |-> "eye"] : m \in {n - 1, n, n + 1} \ {0}}
      \cup {[k \in 1..n |-> IF k = j THEN "low" ELSE "eye"] : j \in 1..n}
      \cup {[k \in 1..n |-> "low"]}

InitDrivers ==
  /\ CtlIdle /\ RunsIdle /\ IntgIdle
  /\ tpc = "call"
  /\ \E shape \in Shapes, gen \in {"ramp", "mixed"} :
       tsfs = IF gen = "ramp" THEN Ramp(shape) ELSE Mixed(shape)
  /\ \E kinds \in KindsFor(tsfs.shape), form \in {"apply", "factorized"},
        cut \in Cuts :
       /\ cut # "none" =>
            /\ tsfs.shape \in {<<2, 3>>, <<2, 3, 2>>}
            /\ kinds = [k \in 1..Len(tsfs.shape) |-> "low"]
       /\ tops = CutList(AxisOperators(tsfs.shape, kinds, form), cut)
  /\ tret = NoResult

(* _update_step1(sfs, Q): dot makes a new array, the caller's is not written *)
CallStep1 ==
  /\ tpc = "call"
  /\ LET r == update_step1(tsfs, tops.Q)
     IN  tret' = [drv |-> "step1", err |-> r.err, given |-> tsfs, sfs |-> r.sfs]
  /\ tpc' = "done"
  /\ UNCHANGED <<tsfs, tops>>

(* _update_step2(sfs, slv): the slices of the caller's array are written *)
CallStep2 ==
  /\ tpc = "call"
  /\ LET r == update_step2(tsfs, tops.slv)
     IN  /\ tret' = [drv |-> "step2", err |-> r.err, given |-> tsfs, sfs |-> r.sfs]
         /\ tsfs' = r.sfs
  /\ tpc' = "done"
  /\ UNCHANGED tops

(* _update_step2_neutral(sfs, A, Di, C) *)
CallStep2Neutral ==
  /\ tpc = "call"
  /\ LET r == update_step2_neutral(tsfs, tops.A, tops.Di, tops.C)
     IN  /\ tret' = [drv |-> "step2_neutral", err |-> r.err, given |-> tsfs,
                     sfs |-> r.sfs]
         /\ tsfs' = r.sfs
  /\ tpc' = "done"
  /\ UNCHANGED tops

NextDrivers ==
  \/ CallStep1 /\ UNCHANGED <<ctl, runs, intg>>
  \/ CallStep2 /\ UNCHANGED <<ctl, runs, intg>>
  \/ CallStep2Neutral /\ UNCHANGED <<ctl, runs, intg>>

SpecDrivers == InitDrivers /\ [][NextDrivers]_vars

-----------------------------------------------------------------------------
(* The update of the tensor in one pass of the time loop, for a constant    *)
(* size vector and zero selection.  Times are the quanta of the loop clock; *)
(* a coefficient is the exact rational.                                     *)

Time(q) == Rat(q, UnitQ)
Half == Rat(1, 2)

TAdd(T, U) ==
  [shape |-> T.shape, at |-> Stored([ix \in DOMAIN T.at |-> RAdd(T.at[ix], U.at[ix])])]
TSub(T, U) ==
  [shape |-> T.shape, at |-> Stored([ix \in DOMAIN T.at |-> RSub(T.at[ix], U.at[ix])])]
TScale(c, T) ==
  [shape |-> T.shape, at |-> Stored([ix \in DOMAIN T.at |-> RMul(c, T.at[ix])])]
VScale(c, x) == [i \in DOMAIN x |-> RMul(c, x[i])]
Ones(n) == [i \in 1..n |-> R1]
VAdd(x, y) == [i \in DOMAIN x |-> RAdd(x[i], y[i])]

(* An array of rank 1 as a vector, and back *)
Vec1(T) == [j \in 1..T.shape[1] |-> T.at[<<j - 1>>]]
Arr1(x) ==
  [shape |-> <<Len(x)>>, at |-> Stored([ix \in Idx(<<Len(x)>>) |-> x[ix[1] + 1]])]

(* M.dot(sfs) for sfs of rank 1 *)
Dot1(M, T) == Arr1(matvec(M, Vec1(T)))

(* LinearSystem_1D.calcD and calcD_dense are not part of the sources at     *)
(* hand.  The drift operator of an axis of length d is modelled as the      *)
(* Wright-Fisher generator on d bins: bin i loses i (d - 1 - i) to each     *)
(* neighbour, so every column sums to zero and drift moves mass without     *)
(* creating or destroying it; the end bins lose nothing.                    *)
calcD(d) ==
  [shape |-> <<d, d>>,
   at |-> Stored([ix \in Idx(<<d, d>>) |->
             LET i == ix[1]
                 j == ix[2]
             IN  IF j = i - 1 /\ i > 1 THEN RInt((i - 1) * (d - i))
                 ELSE IF j = i + 1 /\ i < d - 2 THEN RInt((i + 1) * (d - i - 2))
                 ELSE IF j = i /\ i > 0 /\ i < d - 1 THEN RInt(-2 * i * (d - i - 1))
                 ELSE R0])]

(* The reversible-mutation operator of one axis (Reversible._calcB_FB is    *)
(* not part of the sources at hand): forward mutation at rate uu moves mass *)
(* from bin i to bin i + 1, backward mutation at rate vv from bin i to bin  *)
(* i - 1; every column sums to zero.                                        *)
calcB_FB_1D(d, uu, vv) ==
  [shape |-> <<d, d>>,
   at |-> Stored([ix \in Idx(<<d, d>>) |->
             LET i == ix[1]
                 j == ix[2]
             IN  IF j = i - 1 THEN RMul(uu, RInt(d - i))
                 ELSE IF j = i + 1 THEN RMul(vv, RInt(i + 1))
                 ELSE IF j = i
                   THEN RSub(R0, RAdd(RMul(uu, RInt(d - 1 - i)), RMul(vv, RInt(i))))
                 ELSE R0])]

(* Reversible._calcB_FB(dims, u, v): one matrix for rank 1, one operator on *)
(* the flattened tensor per axis for rank > 1 (kept as the matrix of the    *)
(* axis it acts along)                                                      *)
calcB_FB(dims, uv, vv) ==
  [k \in 1..Len(dims) |-> calcB_FB_1D(dims[k], RInt(uv[k]), RInt(vv[k]))]

(* Lines 33-42: the mutation source of the infinite-sites model *)
UnitIndex(n, k) == [a \in 1..n |-> IF a = k THEN 1 ELSE 0]

calcB_LengthTimesRate(dims, uv) ==
  [shape |-> dims,
   at |-> Stored([ix \in Idx(dims) |->
             IF \E k \in 1..Len(dims) : ix = UnitIndex(Len(dims), k)
               THEN LET k == CHOOSE k \in 1..Len(dims) : ix = UnitIndex(Len(dims), k)
                    IN  RInt(dims[k] * uv[k])
               ELSE R0])]

calcB_RateAdded(dims, uv) ==
  [shape |-> dims,
   at |-> Stored([ix \in Idx(dims) |->
             IF \E k \in 1..Len(dims) : ix = UnitIndex(Len(dims), k)
               THEN LET k == CHOOSE k \in 1..Len(dims) : ix = UnitIndex(Len(dims), k)
                    IN  RInt((dims[k] - 1) * (uv[k] + 1))
               ELSE R0])]

calcB(dims, uv) ==
  [shape |-> dims,
   at |-> Stored([ix \in Idx(dims) |->
             IF \E k \in 1..Len(dims) : ix = UnitIndex(Len(dims), k)
               THEN LET k == CHOOSE k \in 1..Len(dims) : ix = UnitIndex(Len(dims), k)
                    IN  RInt((dims[k] - 1) * uv[k])
               ELSE R0])]

(* 1.0 / 4 / Neff[i].  For a frozen population this is 2.5e-41: the         *)
(* operators I +- (dt / 2) D / (4 Neff) differ from the identity by less    *)
(* than the precision of the computation, and the coefficient is taken as 0 *)
Inv4N(Nv) == IF Nv >= N_frozen THEN R0 ELSE Rat(1, 4 * Nv)

(* Lines 624-639: D, slv and Q of integrate_nomig; S1 and S2 are s h vs and *)
(* s (1 - 2 h) vs2 with s = 0                                               *)
BuildNomig(dims, Neffv, dtq) ==
  LET D(i) == TScale(Inv4N(Neffv[i]), calcD(dims[i]))
      step(i) == TScale(RMul(Time(dtq), Half), D(i))
  IN  [NoOperators EXCEPT
         !.slv = [i \in 1..Len(dims) |-> Factorized(TSub(eye(dims[i]), step(i)))],
         !.Q   = [i \in 1..Len(dims) |-> TAdd(eye(dims[i]), step(i))]]

(* Lines 803-813: D, A, Di, C and Q of integrate_neutral; ts.factor         *)
(* prepares the three diagonals for ts.solve and is modelled with it        *)
BuildNeutral(dims, Neffv, dtq) ==
  LET D(i) == TScale(Inv4N(Neffv[i]), calcD(dims[i]))
      c(i) == RMul(RSub(R0, Half), RMul(Time(dtq), Inv4N(Neffv[i])))
      diags(i) == mat_to_diag(calcD(dims[i]))
  IN  [NoOperators EXCEPT
         !.A  = [i \in 1..Len(dims) |-> VScale(c(i), diags(i)[1])],
         !.Di = [i \in 1..Len(dims) |-> VAdd(Ones(dims[i]), VScale(c(i), diags(i)[2]))],
         !.C  = [i \in 1..Len(dims) |-> VScale(c(i), diags(i)[3])],
         !.Q  = [i \in 1..Len(dims) |->
                   TAdd(eye(dims[i]), TScale(RMul(Half, Time(dtq)), D(i)))]]

(* (dt * B[i]).dot(sfs.flatten()).reshape(n + 1): the operator of axis i    *)
(* applied along that axis                                                  *)
FlatDot(M, T, k) ==
  [shape |-> T.shape,
   at |-> Stored([ix \in DOMAIN T.at |->
             RSum([j \in 1..T.shape[k] |->
                     RMul(M.at[<<ix[k], j - 1>>], T.at[[ix EXCEPT ![k] = j - 1]])])])]

(* Lines 653-654 (826-827): for i in range(len(n)): sfs = sfs + ... *)
RECURSIVE reversible_loop(_, _, _, _)
reversible_loop(sfs, B, dtq, i) ==
  IF i > Len(sfs.shape) THEN sfs
  ELSE reversible_loop(TAdd(sfs, FlatDot(TScale(Time(dtq), B[i]), sfs, i)), B, dtq, i + 1)

(* Lines 643 and 649 (817 and 822): the explicit sub-step *)
ExplicitStep(sfs, ops) ==
  IF Len(sfs.shape) = 1 THEN Dot1(ops.Q[1], sfs) ELSE update_step1(sfs, ops.Q).sfs

(* Mutant: with the finite genome a term that does not depend on the tensor *)
(* is added as well                                                         *)
SourceNomigShifted(y, dtq, B, fg) ==
  IF ~fg THEN TAdd(y, TScale(Time(dtq), B))
  ELSE IF Len(y.shape) = 1
    THEN TAdd(TAdd(y, Dot1(TScale(Time(dtq), B[1]), y)), Ramp(y.shape))
  ELSE TAdd(reversible_loop(y, B, dtq, 1), Ramp(y.shape))

(* Lines 644-647 and 650-654: the source term of integrate_nomig, added to  *)
(* the tensor y the explicit sub-step has left                              *)
SourceNomig(y, dtq, B, fg) ==
  IF ~fg THEN TAdd(y, TScale(Time(dtq), B))
  ELSE IF Len(y.shape) = 1 THEN TAdd(y, Dot1(TScale(Time(dtq), B[1]), y))
  ELSE reversible_loop(y, B, dtq, 1)

(* Lines 817-820 and 823-827: the source term of integrate_neutral; for     *)
(* rank 1 with the finite genome the operator is applied to sfs, the tensor *)
(* at the start of the step                                                 *)
SourceNeutral(sfs, y, dtq, B, fg) ==
  IF ~fg THEN TAdd(y, TScale(Time(dtq), B))
  ELSE IF Len(y.shape) = 1 THEN TAdd(y, Dot1(TScale(Time(dtq), B[1]), sfs))
  ELSE reversible_loop(y, B, dtq, 1)

(* Lines 645, 647 and 655: the implicit sub-step of integrate_nomig *)
ImplicitNomig(z, ops) ==
  IF Len(z.shape) = 1 THEN Arr1(Solve(ops.slv[1], Vec1(z)))
  ELSE update_step2(z, ops.slv).sfs

(* Lines 818, 820 and 828: the implicit sub-step of integrate_neutral *)
ImplicitNeutral(z, ops) ==
  IF Len(z.shape) = 1
    THEN Arr1(Solve(Tridiag(ops.A[1], ops.Di[1], ops.C[1]), Vec1(z)))
    ELSE update_step2_neutral(z, ops.A, ops.Di, ops.C).sfs

-----------------------------------------------------------------------------
(* Two calls on the same arguments: integrate_nomig and integrate_neutral   *)
(* with a constant size vector and no selection.  A run is the locals of    *)
(* one call.                                                                *)

(* Lines 465-562 (697-761): the locals when the time loop is entered *)
Entered ==
  LET u0 == RateVector(IF arg.finite_genome THEN arg.theta_fd ELSE arg.theta)
      v0 == IF arg.finite_genome THEN RateVector(arg.theta_bd) ELSE Vec(arg.P, 0)
      uu == IF AnyFrozen THEN FrozenZero(u0) ELSE u0
      vv == IF AnyFrozen /\ arg.finite_genome THEN FrozenZero(v0) ELSE v0
  IN  [NoRun EXCEPT
         !.pc  = IF 0 < Tmax THEN "loop" ELSE "done",
         !.N   = IF AnyFrozen THEN FreezeList(arg.Npop.val) ELSE arg.Npop.val,
         !.u   = uu,
         !.v   = vv,
         !.dt  = DtFac,
         !.sfs = sfs0,
         !.B   = IF arg.finite_genome THEN calcB_FB(sfs0.shape, uu, vv)
                 ELSE calcB(sfs0.shape, uu)]

StartNomig ==
  /\ run_nomig.pc = "call"
  /\ run_nomig' = Entered
  /\ UNCHANGED <<sfs0, run_neutral>>

StartNeutral ==
  /\ run_neutral.pc = "call"
  /\ run_neutral' = Entered
  /\ UNCHANGED <<sfs0, run_nomig>>

(* Mutant: a pass of integrate_nomig that adds the source term after the    *)
(* implicit sub-step                                                        *)
StepNomigSourceLast ==
  /\ run_nomig.pc = "loop"
  /\ LET r  == run_nomig
         d  == ProposedDt(r.t, r.N, Vec(arg.P, 0))
         rb == r.t = 0 \/ d # r.dt
     IN  \E ops \in {IF rb THEN BuildNomig(sfs0.shape, r.N, d) ELSE r.ops} :
         \E y \in {ExplicitStep(r.sfs, ops)} :
         \E z \in {ImplicitNomig(y, ops)} :
         \E w \in {SourceNomig(z, d, r.B, arg.finite_genome)} :
         run_nomig' =
           [r EXCEPT !.dt = d, !.ops = ops, !.rebuilt = Append(r.rebuilt, rb),
                     !.sfs = w, !.shapes = <<y.shape, z.shape, w.shape>>,
                     !.t = fl(r.t + d), !.steps = r.steps + 1,
                     !.pc = IF fl(r.t + d) < Tmax THEN "loop" ELSE "done"]
  /\ UNCHANGED <<sfs0, run_neutral>>

(* Lines 564-659: one pass of the loop of integrate_nomig; y, z and w are   *)
(* the tensor after the explicit sub-step, the source term and the implicit *)
(* sub-step (lines 641-655)                                                 *)
StepNomig ==
  /\ run_nomig.pc = "loop"
  /\ LET r  == run_nomig
         d  == ProposedDt(r.t, r.N, Vec(arg.P, 0))
         rb == r.t = 0 \/ d # r.dt
     IN  \E ops \in {IF rb THEN BuildNomig(sfs0.shape, r.N, d) ELSE r.ops} :
         \E y \in {ExplicitStep(r.sfs, ops)} :
         \E z \in {SourceNomig(y, d, r.B, arg.finite_genome)} :
         \E w \in {ImplicitNomig(z, ops)} :
         run_nomig' =
           [r EXCEPT !.dt = d, !.ops = ops, !.rebuilt = Append(r.rebuilt, rb),
                     !.sfs = w, !.shapes = <<y.shape, z.shape, w.shape>>,
                     !.t = fl(r.t + d), !.steps = r.steps + 1,
                     !.pc = IF fl(r.t + d) < Tmax THEN "loop" ELSE "done"]
  /\ UNCHANGED <<sfs0, run_neutral>>

(* Lines 762-830: one pass of the loop of integrate_neutral (the update:    *)
(* lines 815-828)                                                           *)
StepNeutral ==
  /\ run_neutral.pc = "loop"
  /\ LET r  == run_neutral
         d  == ProposedDt(r.t, r.N, Vec(arg.P, 0))
         rb == r.t = 0 \/ d # r.dt
     IN  \E ops \in {IF rb THEN BuildNeutral(sfs0.shape, r.N, d) ELSE r.ops} :
         \E y \in {ExplicitStep(r.sfs, ops)} :
         \E z \in {SourceNeutral(r.sfs, y, d, r.B, arg.finite_genome)} :
         \E w \in {ImplicitNeutral(z, ops)} :
         run_neutral' =
           [r EXCEPT !.dt = d, !.ops = ops, !.rebuilt = Append(r.rebuilt, rb),
                     !.sfs = w, !.shapes = <<y.shape, z.shape, w.shape>>,
                     !.t = fl(r.t + d), !.steps = r.steps + 1,
                     !.pc = IF fl(r.t + d) < Tmax THEN "loop" ELSE "done"]
  /\ UNCHANGED <<sfs0, run_nomig>>

(* A unit of mass in one bin that is not at an end of any axis *)
Delta(shape) ==
  [shape |-> shape,
   at |-> Stored([ix \in Idx(shape) |->
             IF \A a \in 1..Len(shape) : ix[a] = 1 THEN R1 ELSE R0])]

CallsSteps ==
  {Args(1, List(Nv), 1, inv, None, None, th, fg, Scalar(4), Scalar(8), <<FALSE>>) :
     Nv \in {<<1>>, <<2>>}, inv \in {1, 2}, th \in {Scalar(0), Scalar(4)},
     fg \in BOOLEAN}
  \cup
  {Args(1, List(Nv), 1, inv, None, None, Scalar(0), TRUE, Scalar(0), Scalar(0), <<FALSE>>) :
     Nv \in {<<1>>, <<2>>}, inv \in {1, 2}}
  \cup
  {Args(2, List(Nv), 1, inv, None, None, th, fg, Scalar(4), Vector(<<8, 4>>), fr) :
     Nv \in {<<1, 2>>, <<2, 2>>}, inv \in {1, 2}, th \in {Scalar(0), Vector(<<4, 8>>)},
     fg \in BOOLEAN, fr \in {<<FALSE, FALSE>>, <<TRUE, FALSE>>, <<FALSE, TRUE>>}}
  \cup
  {Args(P, List(Vec(P, 1)), 1, 1, None, None, Scalar(4), fg, Scalar(4), Scalar(8),
        Vec(P, FALSE)) :
     P \in 3..5, fg \in BOOLEAN}

ShapesSteps ==
  {<<3>>, <<4>>, <<3, 3>>, <<3, 4>>, <<2, 3, 4>>, <<2, 3, 2, 2>>, <<2, 2, 3, 2, 2>>}

InitSteps ==
  /\ CtlOff /\ DrvIdle /\ IntgIdle
  /\ arg \in CallsSteps
  /\ \E shape \in ShapesSteps, gen \in {"ramp", "delta"} :
       /\ Len(shape) = arg.P
       /\ Len(shape) > 2 => gen = "ramp"
       /\ sfs0 = IF gen = "ramp" THEN Ramp(shape) ELSE Delta(shape)
  /\ run_nomig = NoRun
  /\ run_neutral = NoRun

NextSteps ==
  \/ StartNomig /\ UNCHANGED <<ctl, drv, intg>>
  \/ StepNomig /\ UNCHANGED <<ctl, drv, intg>>
  \/ StartNeutral /\ UNCHANGED <<ctl, drv, intg>>
  \/ StepNeutral /\ UNCHANGED <<ctl, drv, intg>>

SpecSteps == InitSteps /\ [][NextSteps]_vars

-----------------------------------------------------------------------------
(* Properties of the time loop and of the code before it *)

RatesAreNumbers == \A th \in RateArgs : th.form # "fun"

(* The value the caller supplied for population i at time x2 / 2 *)
CallerValue(a, dflt, x2, i) ==
  IF a.form = "none" THEN dflt
  ELSE IF a.form = "scalar" THEN a.val[1]
  ELSE IF a.form = "vector" THEN a.val[i]
  ELSE IF a.fn.ret = "scalar" THEN CallUser(a.fn, x2)
  ELSE CallUser(a.fn, x2)[i]

CallerRate(i) ==
  CallerValue(IF arg.finite_genome THEN arg.theta_fd ELSE arg.theta, 0, 0, i)

SampleTimes == {k * (UnitQ \div 2) : k \in 0..(4 * MaxTf)}

BadList == arg.Npop.form = "list" /\ \E i \in 1..arg.P : arg.Npop.val[i] <= 0
BadUnfrozen ==
  arg.Npop.form = "list" /\ \E i \in 1..arg.P : ~arg.frozen[i] /\ arg.Npop.val[i] <= 0
FatalBeforeFirstStep ==
  pc = "raised" /\ raised = "ValueError" /\ t = 0 /\ ~applied.set /\ ~returned

(* C1, as claimed: a constant size vector with an entry <= 0 ends the call  *)
(* with ValueError before the first step, whatever the frozen vector is.    *)
C1_AnyNonPositiveListIsFatal ==
  (pc # "call" /\ RatesAreNumbers /\ BadList) => FatalBeforeFirstStep

(* C1, amended: a constant size vector with an entry <= 0 at a population   *)
(* that is not frozen ends the call with ValueError before the first step   *)
(* and returns no spectrum; an entry <= 0 at a frozen population is         *)
(* overwritten with 1e40 before the test and raises nothing.                *)
C1_NonPositiveUnfrozenIsFatal ==
  /\ (pc # "call" /\ RatesAreNumbers /\ BadUnfrozen) => FatalBeforeFirstStep
  /\ (pc # "call" /\ RatesAreNumbers /\ BadList /\ ~BadUnfrozen) => raised = NA

C1_Witness ==
  /\ pc = "raised" /\ raised = "ValueError"
  /\ arg.P = 2 /\ BadUnfrozen /\ AnyFrozen

(* C2: with Npop a function of time, a step of the call that evaluates a    *)
(* size <= 0 is the step that raises ValueError: the tensor and the clock   *)
(* are as before it, nothing is returned, and no step follows it.           *)
C2_NonPositiveEvaluationIsFatal ==
  [][ (Npop'.callable /\ AnyNonPositive(N'))
        => /\ pc # "raised" /\ pc' = "raised" /\ raised' = "ValueError"
           /\ applied' = applied /\ t' = t /\ ~returned' ]_vars

C2_Witness ==
  /\ pc = "raised" /\ raised = "ValueError"
  /\ Npop.callable /\ n_iter >= 1 /\ applied.set

(* C3: with Npop a function of time, a step is accepted either with a       *)
(* relative change of at most 0.5 in every population or after 10 halvings  *)
(* with the diagnostic printed.                                             *)
C3_AcceptedChangeBounded ==
  (pc \in {"params", "apply"} /\ Npop.callable) =>
     \/ \A i \in 1..arg.P : 2 * Abs(N[i] - Nold[i]) <= Nold[i]
     \/ n_iter = n_iter_max /\ printed

C3_Witness ==
  /\ pc = "apply" /\ Npop.callable
  /\ n_iter = n_iter_max /\ printed
  /\ \E i \in 1..arg.P : 2 * Abs(N[i] - Nold[i]) > Nold[i]

(* A schedule that is positive wherever it is evaluated *)
PositiveSchedule ==
  IF arg.Npop.form = "list" THEN \A i \in 1..arg.P : arg.Npop.val[i] > 0
  ELSE LET f == arg.Npop.fn
       IN  \A i \in 1..arg.P :
             /\ f.pre[i] > 0 /\ f.post[i] > 0 /\ f.last[i] > 0
             /\ f.kind = "lin" => f.rate[i] >= 0

(* C4, as claimed: for tf > 0, dt_fac > 0 and a positive schedule the time  *)
(* loop eventually exits with t = Tmax.                                     *)
C4_LoopTerminates ==
  (RatesAreNumbers /\ PositiveSchedule) => <>(pc = "done" /\ t = Tmax)

(* C5: the clock never passes Tmax = 2 * tf, and the call returns with      *)
(* t = Tmax.                                                                *)
C5_ClockWithinTarget ==
  /\ t <= Tmax
  /\ pc = "done" => t = Tmax /\ returned

C5_Witness ==
  /\ pc = "done" /\ applied.set
  /\ applied.dt = Tmax - applied.from
  /\ applied.dt < DtFac /\ applied.dt < compute_dt(N, SelForDt)

(* What C7 says of gamma, h and the rates after the code before the loop *)
ParamsNormalised ==
  /\ \A x2 \in SampleTimes :
       /\ DOMAIN ParamAt(s, x2) = 1..arg.P
       /\ DOMAIN ParamAt(h, x2) = 1..arg.P
       /\ \A i \in 1..arg.P :
            /\ ~arg.frozen[i] => ParamAt(s, x2)[i] = CallerValue(arg.gamma, 0, x2, i)
            /\ ParamAt(h, x2)[i] = CallerValue(arg.h, h_default, x2, i)
  /\ DOMAIN u = 1..arg.P
  /\ \A i \in 1..arg.P : ~arg.frozen[i] => u[i] = CallerRate(i) \div 4

(* C7, as claimed: gamma, h and the mutation rate may each be a scalar, a   *)
(* vector or a function of time, and each is normalised before the loop.    *)
C7_AllFormsNormalised ==
  (pc # "call" /\ integ = "nomig") => ParamsNormalised

(* C7, amended: gamma and h may each be a scalar, a vector or a function of *)
(* time and are normalised to one entry per population (None: 0 and 0.5);   *)
(* the mutation rate may be a scalar or a vector and is normalised          *)
(* likewise, and a mutation rate that is a function ends the call with      *)
(* TypeError before the loop.                                               *)
C7_NumberRatesNormalised ==
  (pc # "call" /\ integ = "nomig") =>
     IF RatesAreNumbers THEN ParamsNormalised
     ELSE pc = "raised" /\ raised = "TypeError" /\ ~applied.set /\ ~returned

C7_Witness ==
  /\ pc = "loop" /\ integ = "nomig"
  /\ arg.gamma.form = "fun" /\ arg.gamma.fn.ret = "scalar"
  /\ arg.h.form = "scalar" /\ arg.theta.form = "vector"

(* C8: in every step, a frozen population has size 1e40, selection 0 and    *)
(* mutation rates 0; a population that is not frozen has the size, the      *)
(* selection and the rates the caller supplied.                             *)
C8_FrozenParameters ==
  pc = "apply" =>
    \A i \in 1..arg.P :
      IF arg.frozen[i]
        THEN /\ N[i] = N_frozen /\ Neff[i] = N_frozen /\ built.Neff[i] = N_frozen
             /\ integ = "nomig" => s_new[i] = 0 /\ built.s[i] = 0
             /\ u[i] = 0
             /\ arg.finite_genome => v[i] = 0
        ELSE /\ N[i] = IF NpopCallable THEN CallUser(arg.Npop.fn, fl(t + dt))[i]
                       ELSE arg.Npop.val[i]
             /\ integ = "nomig" =>
                  /\ s_new[i] = CallerValue(arg.gamma, 0, fl(t + dt \div 2), i)
                  /\ h_new[i] = CallerValue(arg.h, h_default, fl(t + dt \div 2), i)
             /\ u[i] = CallerRate(i) \div 4
             /\ arg.finite_genome => v[i] = CallerValue(arg.theta_bd, 0, 0, i) \div 4

C8_Witness ==
  /\ pc = "apply" /\ integ = "nomig" /\ t > 0
  /\ arg.frozen = <<FALSE, TRUE>>
  /\ NpopCallable /\ s.callable

(* Npop is a function of time with one jump, and the step about to be       *)
(* applied passes it                                                        *)
OneJump ==
  /\ NpopCallable
  /\ arg.Npop.fn.kind = "step" /\ arg.Npop.fn.until = TimeCap
  /\ arg.Npop.fn.pre # arg.Npop.fn.post
AboutToCross == pc = "apply" /\ OneJump /\ PassesJump(t, fl(t + dt))

(* The jump changes the size of a population that is not frozen by more     *)
(* than 0.5 of its size before the jump                                     *)
BigJump ==
  \E i \in 1..arg.P :
     /\ ~arg.frozen[i]
     /\ acceptable_change_den * Abs(arg.Npop.fn.post[i] - arg.Npop.fn.pre[i])
          > acceptable_change_num * arg.Npop.fn.pre[i]

(* C13, as claimed: when Npop is a step function, a step that passes the    *)
(* jump is applied only after the step that first proposed to pass it has   *)
(* been halved at least once.                                               *)
C13_JumpHalvedBeforeCrossed ==
  AboutToCross => crossing.proposed /\ crossing.halved

(* C13, amended: the same for a jump that changes the size of a population  *)
(* that is not frozen by more than 0.5 of its size; a smaller jump, or a    *)
(* jump of frozen populations only, is passed without any halving.          *)
C13_LargeJumpHalvedBeforeCrossed ==
  AboutToCross =>
    IF BigJump THEN crossing.proposed /\ crossing.halved
    ELSE crossing.proposed /\ ~crossing.halved /\ n_iter = 0

C13_Witness ==
  /\ AboutToCross /\ BigJump
  /\ crossing.proposed /\ crossing.halved /\ ~crossing.in_step
  /\ n_iter >= 1

(* C14, as claimed: the diagnostic is printed in a step only if the step   *)
(* was halved 10 times and the change of size is still above 0.5 for the    *)
(* accepted dt; a step whose change is within 0.5 prints nothing.           *)
C14_PrintedOnlyIfStillLarge ==
  (pc \in {"params", "apply"} /\ printed)
    => n_iter = n_iter_max /\ LargeChange(N, Nold)

(* C18: the integrators leave the objects of the caller as they were      *)
(* passed, so that a second call with the same objects runs on the same   *)
(* values: at every point of a call the caller's list of population sizes *)
(* holds the sizes it was passed with, frozen populations included.       *)
C18_CallerObjectsKept ==
  arg.Npop.form = "list" => Npop_obj = arg.Npop.val

(* The step before the one under way: its step size, and the selection and *)
(* dominance coefficients its operators were made for                      *)
FirstStep == ~applied.set
ChangedSincePreviousStep ==
  \/ N # Nold
  \/ dt # applied.dt
  \/ integ = "nomig" /\ (s_new # applied.ops.s \/ h_new # applied.ops.h)

OperatorsOfTheStep ==
  [set |-> TRUE, Neff |-> Neff, s |-> s_new, h |-> h_new, dt |-> dt]

C21_OperatorsMatchStep ==
  pc = "apply" => built = OperatorsOfTheStep

(* The step proposed for the pass under way: the smallest of the stability *)
(* bound for the sizes and the selection of the step before, Tmax * dt_fac *)
(* and what is left of the time                                            *)
Proposal ==
  MinOf({compute_dt(Nold, IF integ = "nomig" THEN s_old ELSE Vec(arg.P, 0)),
         DtFac, Tmax - t})

(* C22: the step of a pass is its proposal halved n_iter times with        *)
(* n_iter at most 10, never halved when the sizes are a constant vector;   *)
(* after the 10th halving nothing is raised and the step is applied with   *)
(* the dt reached.                                                         *)
C22_AtMostTenHalvings ==
  /\ n_iter <= n_iter_max
  /\ pc \in {"params", "apply"} =>
       /\ dt * 2 ^ n_iter = Proposal
       /\ ~Npop.callable => n_iter = 0
       /\ raised = NA
  /\ (pc \in {"loop", "done"} /\ applied.set) =>
       /\ t = fl(applied.from + applied.dt)
       /\ pc = "loop" => applied.dt = dt

C22_Witness ==
  /\ pc = "loop" /\ applied.set /\ n_iter = n_iter_max /\ raised = NA
  /\ applied.dt * 2 ^ n_iter_max = DtFac

(* The end and the middle of the step under way, as arguments x2 *)
StepEnd == fl(t + dt)
StepMiddle == fl(t + dt \div 2)

NotFrozen == {i \in 1..arg.P : ~arg.frozen[i]}

(* C23, as claimed: with the sizes a function of time, the size of a step  *)
(* is that function at the middle of the step, where the selection and the *)
(* dominance coefficients of the step are evaluated.                       *)
C23_SizeAtMiddleOfStep ==
  (pc = "apply" /\ NpopCallable) =>
    \A i \in NotFrozen : N[i] = CallUser(arg.Npop.fn, StepMiddle)[i]

(* C23, as the code has it: the size of a step is the function at          *)
(* (t + dt) / 2, the end of the step, while the selection and the          *)
(* dominance coefficients are evaluated at (t + dt / 2) / 2, its middle.   *)
C23_SizeAtEndOfStep ==
  (pc = "apply" /\ NpopCallable) =>
    \A i \in NotFrozen :
      /\ N[i] = CallUser(arg.Npop.fn, StepEnd)[i]
      /\ integ = "nomig" =>
           /\ s_new[i] = CallerValue(arg.gamma, 0, StepMiddle, i)
           /\ h_new[i] = CallerValue(arg.h, h_default, StepMiddle, i)

C23_Witness ==
  /\ pc = "apply" /\ NpopCallable /\ integ = "nomig" /\ applied.set
  /\ \E i \in NotFrozen :
       /\ CallUser(arg.Npop.fn, StepEnd)[i] # CallUser(arg.Npop.fn, StepMiddle)[i]
       /\ N[i] = CallUser(arg.Npop.fn, StepEnd)[i]

(* One parameter regime for the whole call: the sizes are a list, and      *)
(* gamma and h are not functions of time                                   *)
ConstantRegime ==
  /\ arg.Npop.form = "list"
  /\ integ = "nomig" => arg.gamma.form # "fun" /\ arg.h.form # "fun"

-----------------------------------------------------------------------------
(* Properties of the splitting drivers *)

IsIdentity(M) == M = eye(M.shape[1])
IdentityOperators ==
  /\ \A k \in DOMAIN tops.Q : IsIdentity(tops.Q[k]) /\ IsIdentity(tops.slv[k].M)
  /\ \A k \in DOMAIN tops.A :
       \A i \in DOMAIN tops.Di[k] :
          tops.A[k][i] = R0 /\ tops.Di[k][i] = R1 /\ tops.C[k][i] = R0
RankOf(T) == Len(T.shape)

(* C10: with the identity operator on every axis, _update_step1,            *)
(* _update_step2 and _update_step2_neutral return an array equal to the one *)
(* handed in, for every array of rank 2, 3, 4 or 5.                         *)
C10_IdentityOperatorsChangeNothing ==
  (tpc = "done" /\ IdentityOperators /\ RankOf(tret.given) \in 2..5
     /\ Len(tops.Q) = RankOf(tret.given))
    => tret.err = NA /\ tret.sfs = tret.given /\ tsfs = tret.given

C10_Witness ==
  /\ tpc = "done" /\ IdentityOperators /\ tret.err = NA
  /\ tret.drv = "step1" /\ tret.given.shape = <<2, 3>>
  /\ tret.sfs = tret.given

(* Reference: the matrix M applied along axis k of T, and one matrix per    *)
(* axis applied in turn                                                     *)
AlongAxis(T, k, M) ==
  [shape |-> T.shape,
   at |-> Stored([ix \in DOMAIN T.at |->
             RSum([j \in 1..T.shape[k] |->
                     RMul(M.at[<<ix[k], j - 1>>], T.at[[ix EXCEPT ![k] = j - 1]])])])]

RECURSIVE AllAxes(_, _, _)
AllAxes(T, Ms, k) ==
  IF k > Len(T.shape) THEN T ELSE AllAxes(AlongAxis(T, k, Ms[k]), Ms, k + 1)

(* The array returned is the array handed in with each operator applied     *)
(* along its axis: the matrix itself for _update_step1 and for callables    *)
(* that multiply, the solution of the system of the matrix for solvers      *)
AppliedAlongAxes ==
  IF tret.drv = "step1" \/ (tret.drv = "step2" /\ tops.slv[1].kind = "apply")
    THEN tret.sfs = AllAxes(tret.given, tops.Q, 1)
    ELSE AllAxes(tret.sfs, tops.Q, 1) = tret.given

(* The lists of operators the driver that was called works with *)
ListsOfDriver ==
  CASE tret.drv = "step1" -> {tops.Q}
    [] tret.drv = "step2" -> {tops.slv}
    [] OTHER -> {tops.A, tops.Di, tops.C}

OneOperatorPerAxis ==
  tpc = "done" /\ \A l \in ListsOfDriver : Len(l) = RankOf(tret.given)

(* C11, as claimed: the three drivers take an array of every rank from 1 to *)
(* 5 with one operator per axis and return it with each operator applied    *)
(* along its axis.                                                          *)
C11_RanksOneToFiveHandled ==
  (OneOperatorPerAxis /\ RankOf(tret.given) \in 1..5)
    => tret.err = NA /\ AppliedAlongAxes

(* C11, amended: the three drivers take an array of every rank from 2 to 5  *)
(* with one operator per axis and return it with each operator applied      *)
(* along its axis; for an array of rank 1 they raise NameError and leave    *)
(* the array as it was.                                                     *)
C11_RanksTwoToFiveHandled ==
  OneOperatorPerAxis =>
    IF RankOf(tret.given) \in 2..5
      THEN tret.err = NA /\ AppliedAlongAxes
      ELSE tret.err = "NameError" /\ tret.sfs = tret.given /\ tsfs = tret.given

C11_Witness ==
  /\ OneOperatorPerAxis /\ tret.err = NA
  /\ tret.drv = "step2_neutral" /\ RankOf(tret.given) = 5
  /\ \A k \in DOMAIN tops.Q : ~IsIdentity(tops.Q[k])
  /\ tret.sfs # tret.given

(* The function of axis k of the driver that was called, and the array     *)
(* after the functions of the axes 1 to k have run in that order           *)
DriverAxis(k, T) ==
  CASE tret.drv = "step1" -> ud1(Len(T.shape), k, T, tops.Q)
    [] tret.drv = "step2" -> ud2(Len(T.shape), k, T, tops.slv)
    [] OTHER -> udn2(Len(T.shape), k, T, tops.A, tops.Di, tops.C)

(* Operator k is applied to every slice along axis k and nothing else      *)
(* changes: the matrix itself where the driver multiplies, the solution of *)
(* its system where the driver solves                                      *)
AxisApplied(before, after, k) ==
  /\ after.shape = before.shape
  /\ IF tret.drv = "step1" \/ (tret.drv = "step2" /\ tops.slv[1].kind = "apply")
       THEN after = AlongAxis(before, k, tops.Q[k])
       ELSE AlongAxis(after, k, tops.Q[k]) = before

(* From axis k on, with T the array the axes before k have left: the       *)
(* function of axis k applies operator k, the axes after k follow in       *)
(* order, and what the last axis leaves is the array returned              *)
RECURSIVE AxesInOrder(_, _)
AxesInOrder(T, k) ==
  IF k > Len(T.shape) THEN T = tret.sfs
  ELSE \E after \in {DriverAxis(k, T)} :
         AxisApplied(T, after, k) /\ AxesInOrder(after, k + 1)

(* C24: for an array of rank 2 to 5 the three drivers run the axes in      *)
(* ascending order; the function of axis k replaces every slice along axis *)
(* k by operator k applied to it and leaves the order of the axes as it    *)
(* was, and the array returned is the array after the last axis.           *)
C24_AxesAscendingEachByItsOperator ==
  (OneOperatorPerAxis /\ RankOf(tret.given) \in 2..5) =>
    AxesInOrder(tret.given, 1)

C24_Witness ==
  /\ OneOperatorPerAxis /\ tret.err = NA
  /\ tret.drv = "step2" /\ tret.given.shape = <<2, 2, 3>>
  /\ tops.Q[1] # tops.Q[2]
  /\ DriverAxis(1, tret.given) = tret.given
  /\ DriverAxis(2, tret.given) = tret.sfs
  /\ tret.sfs # tret.given

(* One of the lists of the driver has not the length of the rank *)
RankMismatch == \E l \in ListsOfDriver : Len(l) # RankOf(tret.given)

(* C28: a driver called with a list of operators whose length is not the   *)
(* rank of the array fails with an assertion error before any axis is      *)
(* treated, the array being left as it was.                                *)
C28_MismatchIsAssertionError ==
  (tpc = "done" /\ RankMismatch) =>
    tret.err = "AssertionError" /\ tret.sfs = tret.given /\ tsfs = tret.given

-----------------------------------------------------------------------------
(* Properties of the update of the tensor *)

Running(r) == r.pc \in {"loop", "done"}

(* C6, as claimed: without selection and on the same arguments,             *)
(* integrate_nomig and integrate_neutral take the same steps (the same dt,  *)
(* the operators rebuilt in the same steps) and after every step hold the   *)
(* same tensor, for rank 1 and rank 2, with and without the finite genome.  *)
C6_SameStepsSameUpdate ==
  (Running(run_nomig) /\ Running(run_neutral)
     /\ run_nomig.steps = run_neutral.steps)
    => /\ run_nomig.t = run_neutral.t
       /\ run_nomig.dt = run_neutral.dt
       /\ run_nomig.rebuilt = run_neutral.rebuilt
       /\ run_nomig.sfs = run_neutral.sfs

(* C12: the tensor of integrate_nomig and of integrate_neutral has the      *)
(* shape of the initial tensor after the explicit sub-step, after the       *)
(* source term and after the implicit sub-step of every pass, and so has    *)
(* the tensor returned; ranks 1 to 5, axes of different lengths.            *)
C12_ShapeKept ==
  \A r \in {run_nomig, run_neutral} :
    Running(r) =>
      /\ r.sfs.shape = sfs0.shape
      /\ DOMAIN r.sfs.at = Idx(sfs0.shape)
      /\ \A k \in DOMAIN r.shapes : r.shapes[k] = sfs0.shape

C12_Witness ==
  /\ run_nomig.pc = "done" /\ run_neutral.pc = "done"
  /\ sfs0.shape = <<2, 2, 3, 2, 2>> /\ arg.finite_genome
  /\ run_nomig.steps >= 2 /\ run_neutral.steps >= 2
  /\ Len(run_nomig.shapes) = 3
  /\ run_nomig.sfs # sfs0 /\ run_neutral.sfs # sfs0

(* The term the source sub-step adds in integrate_nomig ("nomig") or in     *)
(* integrate_neutral when the tensor of the pass is T                       *)
RunOf(w) == IF w = "nomig" THEN run_nomig ELSE run_neutral
TermOf(w, T) ==
  IF w = "nomig"
    THEN TSub(SourceNomig(T, run_nomig.dt, run_nomig.B, arg.finite_genome), T)
    ELSE TSub(SourceNeutral(T, T, run_neutral.dt, run_neutral.B, arg.finite_genome), T)

Zero(shape) == [shape |-> shape, at |-> Stored([ix \in Idx(shape) |-> R0])]

(* The tensor of the run while a pass is still to come, the initial tensor  *)
(* after the last pass                                                      *)
Current(r) == IF r.pc = "loop" THEN r.sfs ELSE sfs0

(* The same term for every tensor: dt * B *)
TermIsConstant(w) ==
  LET dtB == TScale(Time(RunOf(w).dt), RunOf(w).B)
  IN  /\ TermOf(w, Current(RunOf(w))) = dtB
      /\ TermOf(w, Zero(sfs0.shape)) = dtB
      /\ TermOf(w, Mixed(sfs0.shape)) = dtB

(* A term linear in the tensor: zero for the zero tensor, doubled for the   *)
(* doubled tensor                                                           *)
TermIsLinear(w) ==
  LET O == Zero(sfs0.shape)
      T == Current(RunOf(w))
  IN  /\ TermOf(w, O) = O
      /\ TermOf(w, TScale(RInt(2), T)) = TScale(RInt(2), TermOf(w, T))

(* C15: without the finite genome the source term of a step is dt * B,      *)
(* whatever the tensor; with the finite genome it is linear in the tensor,  *)
(* zero for the zero tensor.                                                *)
C15_SourceTerm ==
  \A w \in {"nomig", "neutral"} :
    (Running(RunOf(w)) /\ RunOf(w).steps >= 1) =>
       IF arg.finite_genome THEN TermIsLinear(w) ELSE TermIsConstant(w)

C15_Witness ==
  /\ run_nomig.pc = "loop" /\ run_nomig.steps >= 1
  /\ arg.finite_genome /\ Len(sfs0.shape) = 2
  /\ TermOf("nomig", run_nomig.sfs) # Zero(sfs0.shape)
  /\ TermOf("nomig", run_nomig.sfs) # TermOf("nomig", sfs0)

(* The tensor a pass of the loop leaves for rank > 1, from the tensor T it *)
(* found: the explicit operators on all axes, then the source term, then   *)
(* the implicit solves on all axes, with the operators ops and the step d  *)
ExplicitSourceImplicit(w, T, ops, B, d) ==
  LET y == update_step1(T, ops.Q).sfs
      z == IF arg.finite_genome THEN reversible_loop(y, B, d, 1)
           ELSE TAdd(y, TScale(Time(d), B))
  IN  IF w = "nomig" THEN update_step2(z, ops.slv).sfs
      ELSE update_step2_neutral(z, ops.A, ops.Di, ops.C).sfs

(* The same with the source term added after the implicit solves *)
ExplicitImplicitSource(w, T, ops, B, d) ==
  LET y == update_step1(T, ops.Q).sfs
      z == IF w = "nomig" THEN update_step2(y, ops.slv).sfs
           ELSE update_step2_neutral(y, ops.A, ops.Di, ops.C).sfs
  IN  IF arg.finite_genome THEN reversible_loop(z, B, d, 1)
      ELSE TAdd(z, TScale(Time(d), B))

PassOf(w, r, rn) ==
  (rn.steps = r.steps + 1 /\ Len(sfs0.shape) > 1) =>
    /\ rn.sfs = ExplicitSourceImplicit(w, r.sfs, rn.ops, r.B, rn.dt)
    /\ rn.t = fl(r.t + rn.dt)

SingletonOf(ix, k) ==
  ix[k] = 1 /\ \A j \in DOMAIN ix : j # k => ix[j] = 0

(* C27: the source of the infinite-sites model, _calcB(dims, u), has the   *)
(* shape dims, holds (dims[k] - 1) * u[k] at the index with 1 along axis k *)
(* and 0 along the others, for each axis k, and 0 everywhere else.         *)
C27_SourceInSingletonBins ==
  \A r \in {run_nomig, run_neutral} :
    (Running(r) /\ ~arg.finite_genome) =>
      /\ r.B.shape = sfs0.shape
      /\ DOMAIN r.B.at = Idx(sfs0.shape)
      /\ \A ix \in Idx(sfs0.shape) :
           /\ \A k \in DOMAIN ix :
                SingletonOf(ix, k) => r.B.at[ix] = RInt((sfs0.shape[k] - 1) * r.u[k])
           /\ (\A k \in DOMAIN ix : ~SingletonOf(ix, k)) => r.B.at[ix] = R0

C27_Witness ==
  /\ Running(run_nomig) /\ ~arg.finite_genome /\ sfs0.shape = <<3, 4>>
  /\ run_nomig.u = <<1, 2>>
  /\ run_nomig.B.at[<<1, 0>>] = RInt(2) /\ run_nomig.B.at[<<0, 1>>] = RInt(6)
  /\ run_nomig.B.at[<<1, 1>>] = R0

(* sfs + dt * (B[1] + ... + B[n]) applied to sfs: every term from the same *)
(* tensor y                                                                *)
RECURSIVE TermsOfOneTensor(_, _, _, _, _)
TermsOfOneTensor(acc, y, B, d, i) ==
  IF i > Len(y.shape) THEN acc
  ELSE TermsOfOneTensor(TAdd(acc, FlatDot(TScale(Time(d), B[i]), y, i)), y, B, d, i + 1)

(* The tensor after the first pass if its source sub-step were that sum *)
FirstPassWithSum(w) ==
  LET r == RunOf(w)
      y == update_step1(sfs0, r.ops.Q).sfs
      z == TermsOfOneTensor(y, y, r.B, r.dt, 1)
  IN  IF w = "nomig" THEN update_step2(z, r.ops.slv).sfs
      ELSE update_step2_neutral(z, r.ops.A, r.ops.Di, r.ops.C).sfs

(* C29: with the finite genome and rank > 1 the source sub-step adds to    *)
(* the tensor left by the explicit sub-step dt times the sum of the        *)
(* reversible-mutation operators of all axes applied to that same tensor;  *)
(* stated for the first pass of each integrator.                           *)
C29_SourceIsSumOverAxes ==
  \A w \in {"nomig", "neutral"} :
    (Running(RunOf(w)) /\ RunOf(w).steps = 1 /\ arg.finite_genome
       /\ Len(sfs0.shape) > 1)
      => RunOf(w).sfs = FirstPassWithSum(w)

(* The sum of all entries of a tensor of rank 1, the part of it in the two *)
(* end bins and the part in the bins between them                          *)
Mass(T) == RSum([i \in 1..T.shape[1] |-> T.at[<<i - 1>>]])
Corners(T) == RAdd(T.at[<<0>>], T.at[<<T.shape[1] - 1>>])
Polymorphic(T) == RSub(Mass(T), Corners(T))

(* One population, no mutation (forward and backward) and no selection *)
DriftOnly(r) ==
  /\ arg.P = 1 /\ r.u = <<0>>
  /\ arg.finite_genome => r.v = <<0>>

ExactlyOneFrozen == arg.P = 2 /\ arg.frozen[1] # arg.frozen[2]
FrozenAxis == IF arg.frozen[1] THEN 1 ELSE 2
OtherAxis == IF arg.frozen[1] THEN 2 ELSE 1

(* The tensor of rank 2 summed over the axis that is not k *)
Marginal(T, k) ==
  [j \in 1..T.shape[k] |->
     RSum([i \in 1..T.shape[3 - k] |->
             T.at[IF k = 1 THEN <<j - 1, i - 1>> ELSE <<i - 1, j - 1>>]])]

(* The mass the mutations of the population that is not frozen have added   *)
(* up to the clock of the run: (n + 1 - 1) u per unit of time               *)
Injected(r) ==
  RMul(Time(r.t), RInt((sfs0.shape[OtherAxis] - 1) * r.u[OtherAxis]))

-----------------------------------------------------------------------------
(* Spectrum.integrate: the checks on its arguments and the choice of the   *)
(* integrator.  The mutation rates of a call are in thousandths.           *)

ThetaOne == 1000

(* numpy.any(frozen) *)
AnyOf(fr) == \E i \in 1..Len(fr) : fr[i]

(* hasattr(Npop, "__len__"): len(Npop), else len(Npop(0)) *)
LenNpop(Np) == IF Np.form = "fun" THEN Len(Np.fn.pre) ELSE Len(Np.val)

(* finite_genome == True and (theta_fd == None or theta_bd == None) *)
RatesMissing(a) == a.finite_genome /\ (a.theta_fd = None \/ a.theta_bd = None)

ThetaAboveOne(a) == RatesMissing(a) /\ a.theta > ThetaOne

(* the first raise: the symmetric finite genome model needs theta < 1 *)
ThetaTooLarge(a) == RatesMissing(a) /\ a.theta >= ThetaOne

(* the second raise: frozen populations and a frozen vector of another length *)
FrozenMismatch(a) == AnyOf(a.frozen) /\ LenNpop(a.Npop) # Len(a.frozen)

(* theta_fd = theta_bd = theta when they are missing *)
RateFd(a) == IF RatesMissing(a) THEN Scalar(a.theta) ELSE a.theta_fd
RateBd(a) == IF RatesMissing(a) THEN Scalar(a.theta) ELSE a.theta_bd

(* one population: gamma == 0 after None became 0.0; a list or a function *)
(* never equals 0, an array of one entry equals 0 when its entry does     *)
GammaIsZero(g) ==
  CASE g.form = "none" -> TRUE
    [] g.form \in {"scalar", "vector"} -> g.val[1] = 0
    [] OTHER -> FALSE

(* several populations: (numpy.array(gamma) == 0).all() after None became *)
(* numpy.zeros(len(n)); an array holding a function never equals 0        *)
GammaAllZero(g) ==
  CASE g.form = "none" -> TRUE
    [] g.form = "fun" -> FALSE
    [] OTHER -> \A i \in 1..Len(g.val) : g.val[i] = 0

(* (m == 0).all() after None became numpy.zeros([len(n), len(n)]) *)
MigAllZero(m) == m \in {"none", "zero"}

NeutralAnyRank(P) == TRUE

FewPops(P) == P < 3

(* the integrator the call goes to *)
Integrator(a) ==
  IF a.P = 1
    THEN IF GammaIsZero(a.gamma) THEN "integrate_neutral" ELSE "integrate_nomig"
    ELSE IF MigAllZero(a.m)
           THEN IF GammaAllZero(a.gamma) /\ FewPops(a.P)
                  THEN "integrate_neutral" ELSE "integrate_nomig"
           ELSE "integrate_nD"

(* gamma and h as the integrator receives them; integrate_neutral takes none *)
GammaPassed(a) ==
  IF Integrator(a) = "integrate_neutral" THEN <<>>
  ELSE IF a.gamma # None THEN a.gamma
  ELSE IF a.P = 1 THEN Scalar(0) ELSE Vector(Vec(a.P, 0))

HPassed(a) ==
  IF Integrator(a) = "integrate_neutral" THEN <<>>
  ELSE IF a.h # None THEN a.h
  ELSE IF a.P = 1 THEN Scalar(h_default) ELSE Vector(Vec(a.P, h_default))

GammasIntegrate(P) ==
  {None, Scalar(0), Scalar(1), List(Vec(P, 0)), Vector(Vec(P, 0)),
   List([i \in 1..P |-> IF i = P THEN 2 ELSE 0]),
   Fun(StepFn("vector", Vec(P, 0), Vec(P, 0), UnitQ))}

MaxPops == 3

(* the population sizes of a call: a list, or a function of time; the last *)
(* size of a list may be zero, and a function may fall to zero at time 1/2 *)
(* or at time 3/2                                                          *)
SizesIntegrate(P) ==
  {List([i \in 1..P |-> i]),
   List([i \in 1..P |-> IF i = P THEN 0 ELSE i]),
   Fun(StepFn("vector", Vec(P, 1), Vec(P, 2), UnitQ)),
   Fun(StepFn("vector", Vec(P, 1), Vec(P, 0), UnitQ)),
   Fun(StepFn("vector", Vec(P, 1), Vec(P, 0), 3 * UnitQ))}

(* the frozen vectors of a call: of the right length or of another one *)
FrozenIntegrate(P) ==
  {Vec(P, FALSE), [i \in 1..P |-> i = P], [i \in 1..(P + 1) |-> i = 1],
   Vec(P + 1, FALSE)}

CallIntegrate(P, Np, tf, g, hh, m, th, fg, fd, bd, fr) ==
  [P |-> P, Npop |-> Np, tf |-> tf, gamma |-> g, h |-> hh, m |-> m, theta |-> th,
   finite_genome |-> fg, theta_fd |-> fd, theta_bd |-> bd, frozen |-> fr]

InitIntegrate ==
  /\ CtlIdle /\ DrvIdle /\ RunsIdle
  /\ ipc = "call"
  /\ \E P \in 1..MaxPops :
       \E Np \in SizesIntegrate(P), tf \in 1..MaxTf,
          g \in GammasIntegrate(P), hh \in {None, Scalar(2)},
          m \in {"none", "zero", "nonzero"},
          th \in {1, ThetaOne - 1, ThetaOne, 2 * ThetaOne},
          fg \in BOOLEAN, fd \in {None, Scalar(2)}, bd \in {None, Scalar(3)},
          fr \in FrozenIntegrate(P) :
         iarg = CallIntegrate(P, Np, tf, g, hh, m, th, fg, fd, bd, fr)
  /\ idata = "initial"
  /\ imask \in {"corners", "none"}
  /\ iout = NoOut

(* The sizes the integrator sees at time x2 / 2: the caller's, with the    *)
(* sizes of the frozen populations replaced by 1e40                        *)
SizesSeen(a, x2) ==
  LET raw == IF a.Npop.form = "fun" THEN CallUser(a.Npop.fn, x2) ELSE a.Npop.val
  IN  [i \in DOMAIN raw |-> IF AnyOf(a.frozen) /\ a.frozen[i] THEN N_frozen ELSE raw[i]]

(* How a call of integrate_nomig or integrate_neutral ends.  The sizes are *)
(* tested at time 0, before the loop, and at the end of every step; the    *)
(* last step ends at tf.  The size functions of the calls change once and  *)
(* keep their value, so a size that is not positive at some end of step is *)
(* not positive at tf; with the default dt_fac the first step ends before  *)
(* time 1/2, so that a raise in the loop follows at least one pass.        *)
IntegratorOutcome(a) ==
  IF AnyNonPositive(SizesSeen(a, 0)) THEN "raised before the loop"
  ELSE IF AnyNonPositive(SizesSeen(a, a.tf * 2 * UnitQ)) THEN "raised in the loop"
  ELSE "returned"

IntegratorTensorShared(given) == given

(* sfs0 = np.array(sfs0): the tensor the integrator updates is a copy of   *)
(* the array it is given                                                   *)
IntegratorTensor(given) == <<"copy of", given>>

(* Spectrum.integrate, from its call to its return or its exception.  The  *)
(* code of integrate_nD is not followed: its call is taken to return.      *)
Spectrum_integrate ==
  /\ ipc = "call"
  /\ UNCHANGED <<iarg, imask>>
  /\ IF ThetaTooLarge(iarg) \/ FrozenMismatch(iarg)
       THEN /\ ipc' = "raised"
            /\ iout' = [NoOut EXCEPT !.err = "ValueError"]
            /\ UNCHANGED idata
       ELSE LET out == IF Integrator(iarg) = "integrate_nD" THEN "returned"
                       ELSE IntegratorOutcome(iarg)
            IN  /\ ipc' = IF out = "returned" THEN "done" ELSE "raised"
                /\ iout' = [err |-> IF out = "returned" THEN NA ELSE "ValueError",
                            fn |-> Integrator(iarg),
                            gamma |-> GammaPassed(iarg), h |-> HPassed(iarg),
                            theta |-> iarg.theta,
                            theta_fd |-> RateFd(iarg), theta_bd |-> RateBd(iarg)]
                /\ idata' = IF out = "returned" THEN "integrated"
                            ELSE IF /\ out = "raised in the loop"
                                    /\ IntegratorTensor("self.data") = "self.data"
                                   THEN "partly integrated"
                            ELSE idata

NextIntegrate == Spectrum_integrate /\ UNCHANGED <<ctl, drv, runs>>

SpecIntegrate == InitIntegrate /\ [][NextIntegrate]_vars

(* C16: a call of Spectrum.integrate that returns went to the migration   *)
(* integrator when a migration rate is non-zero, else to the neutral      *)
(* integrator when every selection coefficient is zero, for any number of *)
(* populations, and else to the selection integrator without migration.   *)
ZeroSelection(a) == IF a.P = 1 THEN GammaIsZero(a.gamma) ELSE GammaAllZero(a.gamma)

C16_NeutralForAnyNumber ==
  ipc = "done" =>
    iout.fn = IF ~MigAllZero(iarg.m) THEN "integrate_nD"
              ELSE IF ZeroSelection(iarg) THEN "integrate_neutral"
              ELSE "integrate_nomig"

(* C16, as the code has it: the migration rates count only with two or    *)
(* more populations, where a non-zero rate sends the call to the          *)
(* migration integrator; without one, the call goes to the neutral        *)
(* integrator when the selection coefficients compare equal to zero and   *)
(* there are at most two populations, and to the selection integrator     *)
(* without migration otherwise, three or more neutral populations         *)
(* included.                                                              *)
C16_NeutralForOneOrTwo ==
  ipc = "done" =>
    iout.fn = IF iarg.P >= 2 /\ ~MigAllZero(iarg.m) THEN "integrate_nD"
              ELSE IF ZeroSelection(iarg) /\ iarg.P <= 2 THEN "integrate_neutral"
              ELSE "integrate_nomig"

C16_Witness ==
  /\ ipc = "done" /\ iarg.P = 3 /\ MigAllZero(iarg.m)
  /\ ZeroSelection(iarg) /\ iout.fn = "integrate_nomig"

(* C17: in a call of Spectrum.integrate with finite_genome true and        *)
(* theta_fd or theta_bd not given, theta >= 1 raises ValueError with no    *)
(* integrator called and self.data as it was; theta < 1 lets the call go   *)
(* on (only the check of the frozen vector can still stop it before the   *)
(* integrator is called) and the integrator receives theta as both rates.  *)
(* When both rates are given the integrator receives them as they were     *)
(* given.                                                                  *)
C17_FiniteGenomeRates ==
  ipc # "call" =>
    /\ RatesMissing(iarg) /\ iarg.theta >= ThetaOne =>
         /\ ipc = "raised" /\ iout.err = "ValueError"
         /\ iout.fn = "none" /\ idata = "initial"
    /\ RatesMissing(iarg) /\ iarg.theta < ThetaOne =>
         \/ /\ iout.fn # "none"
            /\ iout.theta_fd = Scalar(iarg.theta)
            /\ iout.theta_bd = Scalar(iarg.theta)
         \/ ipc = "raised" /\ FrozenMismatch(iarg)
    /\ iarg.theta_fd # None /\ iarg.theta_bd # None /\ iout.fn # "none" =>
         iout.theta_fd = iarg.theta_fd /\ iout.theta_bd = iarg.theta_bd

C17_Witness ==
  /\ ipc = "raised" /\ iarg.finite_genome /\ iarg.theta = ThetaOne
  /\ iarg.theta_fd # None /\ iarg.theta_bd = None
  /\ ~FrozenMismatch(iarg) /\ idata = "initial"

(* C30: Spectrum.integrate writes self.data only after the integrator has *)
(* returned.  A call that ended with an exception, of Spectrum.integrate   *)
(* itself or of the integrator (a size that is not positive at time 0 or   *)
(* at the end of a later step), left the data as they were; a call that    *)
(* returned left the integrator's result in the data.  The mask is never   *)
(* changed.                                                                *)
C30_DataReplacedOnReturnOnly ==
  [][Spectrum_integrate =>
       /\ imask' = imask
       /\ ipc' = "raised" => idata' = idata
       /\ ipc' = "done" => idata' = "integrated"]_vars

C30_Witness ==
  /\ ipc = "raised" /\ iout.fn \in {"integrate_nomig", "integrate_neutral"}
  /\ IntegratorOutcome(iarg) = "raised in the loop"
  /\ idata = "initial"

====
